---- MODULE Spec2Model ----
(***************************************************************************)
(* Review dashboard of anticlam/flexsubmission: the approval store and the *)
(* two review endpoints of the server (start-all.js), the dashboard        *)
(* client's review collection with its filter / sort pipeline              *)
(* (AnalyticsPage.jsx), the analytics tab (unnamed/part_000) and the       *)
(* public property page (PropertyPage.jsx).                                *)
(*                                                                         *)
(* JavaScript strings on which the code does string work (toLowerCase,     *)
(* includes, trim, split, endsWith) are sequences of one-character         *)
(* strings.  null / undefined / NaN of a numeric field are the sentinels   *)
(* Null, Undefined and NaN.                                                *)
(***************************************************************************)
EXTENDS Integers, Sequences, FiniteSets, TLC

VARIABLES
  upstream,         \* the Hostaway API: whether it grants a token, how the reviews
                    \* request ends, the result it carries
  approvalsFile,    \* review-approvals.json: property key -> boolean
  puts,             \* PUT /api/reviews/:id/approval requests under way
  gets,             \* GET /api/reviews/hostaway requests under way
  toggles,          \* number of toggle requests issued so far
  pageLoads,        \* number of times the property page was opened
  reviews,          \* DashboardPage: useState reviews
  loading,          \* DashboardPage: useState loading
  error,            \* DashboardPage: useState error
  crashed,          \* a memo threw while rendering: React unmounted the page
  propertyFilter,   \* DashboardPage: useState propertyFilter
  channelFilter,    \* DashboardPage: useState channelFilter
  publicDisplayFilter, \* DashboardPage: useState publicDisplayFilter
  sortBy,           \* DashboardPage: useState sortBy
  searchQuery,      \* DashboardPage: useState searchQuery
  categoryFilters,  \* DashboardPage: useState categoryFilters
  filtered,         \* displayableReviews memo: processedReviews after "1. Apply Filters"
  displayableReviews, \* DashboardPage: useMemo displayableReviews
  selectedProperty, \* AnalyticsTab: useState selectedProperty
  analytics,        \* AnalyticsTab: useMemo analytics
  pageReviews,      \* PropertyPage: useState reviews
  approvedReviews,  \* PropertyPage: useMemo approvedReviews
  edits,            \* number of changes made to the filter and sort controls
  acked,            \* observation only: per id, the value of the latest PUT answered 200
  lastEvent         \* observation only: the handler step taken last

serverVars == <<upstream, approvalsFile, puts, gets, toggles, pageLoads>>
dataVars == <<reviews, loading, error, crashed>>
filterVars == <<propertyFilter, channelFilter, publicDisplayFilter, searchQuery, categoryFilters>>
viewVars == <<filterVars, sortBy, filtered, displayableReviews>>
analyticsVars == <<selectedProperty, analytics>>
pageVars == <<pageReviews, approvedReviews>>
vars == <<serverVars, dataVars, viewVars, analyticsVars, pageVars, edits, acked, lastEvent>>

----------------------------------------------------------------------------
(* JavaScript values *)

Null == 0 - 1
Undefined == 0 - 2
NaN == 0 - 999999

\* x || y on a number-or-null field: 0, null, undefined and NaN are falsy
Truthy(x) == x # Null /\ x # Undefined /\ x # NaN /\ x # 0

\* A string field that holds no string: Absent when the field is missing
\* (undefined), NotAString when it holds a number such as 42.  Strings
\* proper are sequences of one-character strings.
Absent == <<"undefined">>
NotAString == <<"42">>

\* typeof v === 'string'
IsString(v) == v # Absent /\ v # NotAString

\* !v of a string field: '' and undefined are falsy, 42 is not
FalsyText(v) == v = <<>> \/ v = Absent

\* null where an object is expected: as a raw record, as an element of a
\* reviewCategory array
NullObject == [null |-> TRUE]

Range(s) == {s[i] : i \in 1..Len(s)}

----------------------------------------------------------------------------
(* Strings: sequences of characters *)

Lower(ch) ==
  CASE ch = "A" -> "a"
    [] ch = "B" -> "b"
    [] ch = "C" -> "c"
    [] ch = "G" -> "g"
    [] ch = "H" -> "h"
    [] ch = "P" -> "p"
    [] ch = "S" -> "s"
    [] ch = "U" -> "u"
    [] OTHER -> ch

ToLowerCase(s) == [i \in 1..Len(s) |-> Lower(s[i])]

Upper(ch) ==
  CASE ch = "a" -> "A"
    [] ch = "b" -> "B"
    [] ch = "c" -> "C"
    [] ch = "d" -> "D"
    [] ch = "e" -> "E"
    [] ch = "g" -> "G"
    [] ch = "h" -> "H"
    [] ch = "i" -> "I"
    [] ch = "k" -> "K"
    [] ch = "l" -> "L"
    [] ch = "m" -> "M"
    [] ch = "n" -> "N"
    [] ch = "o" -> "O"
    [] ch = "p" -> "P"
    [] ch = "r" -> "R"
    [] ch = "s" -> "S"
    [] ch = "t" -> "T"
    [] ch = "u" -> "U"
    [] ch = "w" -> "W"
    [] ch = "x" -> "X"
    [] ch = "y" -> "Y"
    [] OTHER -> ch

\* \w of a regular expression: letters, digits and "_"
IsWordChar(ch) == ch # " " /\ ch # "-"

\* name.replace('_', ' ').replace(/\b\w/g, l => l.toUpperCase()): the first
\* "_" becomes a space, then the first character of every word is capitalised
Humanize(name) ==
  LET at == {i \in 1..Len(name) : name[i] = "_"}
      spaced == [i \in 1..Len(name) |->
                   IF i \in at /\ (\A j \in at : i <= j) THEN " " ELSE name[i]]
  IN [i \in 1..Len(spaced) |->
        IF IsWordChar(spaced[i]) /\ (i = 1 \/ ~IsWordChar(spaced[i - 1]))
        THEN Upper(spaced[i]) ELSE spaced[i]]

\* String.prototype.includes
Includes(s, q) ==
  \E i \in 0..(Len(s) - Len(q)) : SubSeq(s, i + 1, i + Len(q)) = q

\* String.prototype.endsWith
EndsWith(s, q) ==
  Len(q) <= Len(s) /\ SubSeq(s, Len(s) - Len(q) + 1, Len(s)) = q

\* String.prototype.trim
RECURSIVE TrimStart(_)
TrimStart(s) ==
  IF s # <<>> /\ Head(s) = " " THEN TrimStart(Tail(s)) ELSE s

RECURSIVE TrimEnd(_)
TrimEnd(s) ==
  IF s # <<>> /\ s[Len(s)] = " " THEN TrimEnd(SubSeq(s, 1, Len(s) - 1)) ELSE s

Trim(s) == TrimEnd(TrimStart(s))

\* String.prototype.split('-'): the pieces between the separators
RECURSIVE SplitFrom(_, _, _)
SplitFrom(s, i, piece) ==
  IF i > Len(s) THEN <<piece>>
  ELSE IF s[i] = "-" THEN <<piece>> \o SplitFrom(s, i + 1, <<>>)
  ELSE SplitFrom(s, i + 1, Append(piece, s[i]))

Split(s) == SplitFrom(s, 1, <<>>)

StrAll == <<"a", "l", "l">>
StrDesc == <<"d", "e", "s", "c">>
StrAsc == <<"a", "s", "c">>
StrDash == <<"-">>
StrDateDesc == <<"d", "a", "t", "e", "-", "d", "e", "s", "c">>
StrDateAsc == <<"d", "a", "t", "e", "-", "a", "s", "c">>
StrRatingDesc == <<"r", "a", "t", "i", "n", "g", "-", "d", "e", "s", "c">>
StrRatingAsc == <<"r", "a", "t", "i", "n", "g", "-", "a", "s", "c">>

----------------------------------------------------------------------------
(* Reviews *)

\* The canonical Review is the object normalizeReview returns.  reviewCategory
\* is a JavaScript value: kind "array" with its items, or no array at all
\* (kind "null": absent; kind "object": some other value).
IsArray(rc) == rc.kind = "array"

\* !review.reviewCategory
IsFalsyValue(rc) == rc.kind = "null"

ArrayOf(items) == [kind |-> "array", items |-> items]
NoCategories == [kind |-> "null", items |-> <<>>]
NotASequence == [kind |-> "object", items |-> <<>>]

\* Array.prototype.find(cat => cat.category === name): index of the first
\* entry of that name, 0 when there is none
FindCategory(items, name) ==
  LET Named(i) == items[i] # NullObject /\ items[i].category = name
  IN IF \E i \in 1..Len(items) : Named(i)
     THEN CHOOSE i \in 1..Len(items) : Named(i) /\ \A j \in 1..(i - 1) : ~Named(j)
     ELSE 0

\* find(cat => cat.category === name) meets a null entry before an entry of
\* that name: cat.category throws a TypeError
FindThrows(items, name) ==
  \E i \in 1..Len(items) :
    /\ items[i] = NullObject
    /\ \A j \in 1..(i - 1) : items[j] = NullObject \/ items[j].category # name

\* new Date(submittedAt): year, month and day of a parseable date string,
\* <<>> for the empty string and for text that is no date
DateFields(s) ==
  CASE s = "2023-03-10" -> <<2023, 3, 10>>
    [] s = "2023-03-25" -> <<2023, 3, 25>>
    [] s = "2023-11-02" -> <<2023, 11, 2>>
    [] s = "2024-01-15" -> <<2024, 1, 15>>
    [] OTHER -> <<>>

\* Date.prototype.valueOf: a timestamp in days, NaN for an Invalid Date
DateValue(s) ==
  LET f == DateFields(s)
  IN IF f = <<>> THEN NaN
     ELSE (f[1] - 1970) * 372 + (f[2] - 1) * 31 + f[3]

\* ToNumber of a number-or-null value: null is 0, undefined is NaN
ToNumber(x) == IF x = Null THEN 0 ELSE IF x = Undefined THEN NaN ELSE x

\* a - b: NaN when either side is NaN
Minus(a, b) ==
  IF ToNumber(a) = NaN \/ ToNumber(b) = NaN THEN NaN ELSE ToNumber(a) - ToNumber(b)

\* a >= b: false when either side is NaN
AtLeast(a, b) == ToNumber(a) # NaN /\ ToNumber(b) # NaN /\ ToNumber(a) >= ToNumber(b)

----------------------------------------------------------------------------
(* Arrays: an array value together with the identity it may share with   *)
(* the reviews state.  src is the reviews array as the computation       *)
(* leaves it, arr the array in hand, alias whether arr is that same      *)
(* array object.                                                         *)

\* [...reviews]
SpreadCopy(rs) == [src |-> rs, arr |-> rs, alias |-> FALSE]

\* an array used as it is, without a copy
SameArray(rs) == [src |-> rs, arr |-> rs, alias |-> TRUE]

\* Array.prototype.filter: a new array, holding the elements kept
ArrayFilter(st, kept) == [src |-> st.src, arr |-> kept, alias |-> FALSE]

Sign(v) == IF v = NaN \/ v = 0 THEN 0 ELSE IF v < 0 THEN 0 - 1 ELSE 1

\* A consistent comparator (ECMAScript, Array.prototype.sort) over the
\* elements of s: a strict weak ordering; a NaN result counts as +0.  cmp is
\* the comparator's result for every pair of elements.
ConsistentComparator(s, cmp) ==
  LET n == Len(s)
      c(i, j) == Sign(cmp[s[i], s[j]])
  IN /\ \A i \in 1..n : c(i, i) = 0
     /\ \A i, j \in 1..n : c(i, j) = 0 - c(j, i)
     /\ \A i, j, k \in 1..n :
          /\ (c(i, j) = 0 /\ c(j, k) = 0) => c(i, k) = 0
          /\ (c(i, j) < 0 /\ c(j, k) < 0) => c(i, k) < 0

\* The stable sort of s under a consistent comparator
StableSort(s, cmp) ==
  LET n == Len(s)
      c(i, j) == Sign(cmp[s[i], s[j]])
      pos(i) == 1 + Cardinality({j \in 1..n : c(j, i) < 0 \/ (c(j, i) = 0 /\ j < i)})
  IN [k \in 1..n |-> s[CHOOSE i \in 1..n : pos(i) = k]]

\* Array.prototype.sort(comparator): sorted in place and stable; with a
\* comparator that is not consistent the order is implementation-defined,
\* any permutation of the elements.
SortOutcomes(s, cmp) ==
  IF ConsistentComparator(s, cmp)
  THEN {StableSort(s, cmp)}
  ELSE {[k \in 1..Len(s) |-> s[p[k]]] : p \in Permutations(1..Len(s))}

ArraySort(st, cmp) ==
  {[src |-> IF st.alias THEN o ELSE st.src, arr |-> o, alias |-> st.alias] :
     o \in SortOutcomes(st.arr, cmp)}

----------------------------------------------------------------------------
(* Category Detector *)

\* UTF-16 code unit order of the characters in use; "42" stands for the
\* digits of the number 42, which sort() compares as the string "42"
CodeUnits ==
  <<" ", "-", "42", "A", "B", "C", "G", "H", "P", "S", "U", "_", "a", "b", "c", "d", "e",
    "g", "h", "i", "k", "l", "m", "n", "o", "p", "r", "s", "t", "u", "w", "x", "y">>

CharCode(ch) == CHOOSE i \in 1..Len(CodeUnits) : CodeUnits[i] = ch

\* s < t in the order of Array.prototype.sort() without a comparator
RECURSIVE StringLess(_, _)
StringLess(s, t) ==
  IF t = <<>> THEN FALSE
  ELSE IF s = <<>> THEN TRUE
  ELSE IF Head(s) = Head(t) THEN StringLess(Tail(s), Tail(t))
  ELSE CharCode(Head(s)) < CharCode(Head(t))

\* review.reviewCategory.forEach(cat => cat && cat.category && add)
CategoriesOf(review) ==
  LET rc == review.reviewCategory
  IN IF IsArray(rc)
     THEN {rc.items[j].category :
             j \in {k \in 1..Len(rc.items) :
                      rc.items[k] # NullObject /\ ~FalsyText(rc.items[k].category)}}
     ELSE {}

\* the Set that detectCategories collects over the reviews
CategorySet(rs) == UNION {CategoriesOf(rs[i]) : i \in 1..Len(rs)}

\* Array.from(categories).sort()
DetectCategories(rs) ==
  LET S == CategorySet(rs)
  IN [k \in 1..Cardinality(S) |->
        CHOOSE c \in S : Cardinality({d \in S : StringLess(d, c)}) = k - 1]

----------------------------------------------------------------------------
(* displayableReviews: 1. Apply Filters *)

RatingFloor == 0
RatingCeiling == 10

\* the filter controls, as the memo reads them
FilterSpec(pf, chf, pdf, sq, cf) ==
  [property |-> pf, channel |-> chf, display |-> pdf, search |-> sq, categories |-> cf]

PropertyStep(st, f) ==
  IF f.property # StrAll
  THEN ArrayFilter(st, SelectSeq(st.arr, LAMBDA r : r.listingName = f.property))
  ELSE st

ChannelStep(st, f) ==
  IF f.channel # "all"
  THEN ArrayFilter(st, SelectSeq(st.arr, LAMBDA r : "Hostaway" = f.channel))
  ELSE st

DisplayStep(st, f) ==
  IF f.display # "all"
  THEN IF f.display = "shown"
       THEN ArrayFilter(st, SelectSeq(st.arr, LAMBDA r : r.displayOnWebsite = TRUE))
       ELSE IF f.display = "hidden"
            THEN ArrayFilter(st, SelectSeq(st.arr, LAMBDA r : r.displayOnWebsite = FALSE))
            ELSE st
  ELSE st

MatchesSearch(review, query) ==
  \/ Includes(ToLowerCase(review.publicReview), query)
  \/ Includes(ToLowerCase(review.guestName), query)
  \/ Includes(ToLowerCase(review.listingName), query)

\* x?.toLowerCase() of a value that has no such method: a TypeError
LowerThrows(v) == v = NotAString

\* the search callback throws on this review
SearchThrows(review, query) ==
  \/ LowerThrows(review.publicReview)
  \/ /\ ~Includes(ToLowerCase(review.publicReview), query)
     /\ \/ LowerThrows(review.guestName)
        \/ /\ ~Includes(ToLowerCase(review.guestName), query)
           /\ LowerThrows(review.listingName)

\* the variant that trims the query before it matches
SearchStepTrimmed(st, f) ==
  IF Trim(f.search) # <<>>
  THEN LET query == ToLowerCase(Trim(f.search))
       IN ArrayFilter(st, SelectSeq(st.arr, LAMBDA r : MatchesSearch(r, query)))
  ELSE st

SearchStep(st, f) ==
  IF Trim(f.search) # <<>>
  THEN LET query == ToLowerCase(f.search)
       IN ArrayFilter(st, SelectSeq(st.arr, LAMBDA r : MatchesSearch(r, query)))
  ELSE st

\* the variant that excludes a review without an entry for the category
PassesCategoryStrict(review, category, range) ==
  IF range[1] = RatingFloor /\ range[2] = RatingCeiling THEN TRUE
  ELSE IF ~IsArray(review.reviewCategory) THEN TRUE
  ELSE LET items == review.reviewCategory.items
           i == FindCategory(items, category)
       IN i # 0 /\ AtLeast(items[i].rating, range[1]) /\ AtLeast(range[2], items[i].rating)

\* the callback of Object.entries(categoryFilters).every
PassesCategory(review, category, range) ==
  IF range[1] = RatingFloor /\ range[2] = RatingCeiling THEN TRUE
  ELSE IF ~IsArray(review.reviewCategory) THEN TRUE
  ELSE LET items == review.reviewCategory.items
           i == FindCategory(items, category)
       IN IF i = 0 THEN TRUE
          ELSE AtLeast(items[i].rating, range[1]) /\ AtLeast(range[2], items[i].rating)

PassesCategoryFilters(review, cf) ==
  IF IsFalsyValue(review.reviewCategory) THEN TRUE
  ELSE \A category \in DOMAIN cf : PassesCategory(review, category, cf[category])

\* the category callback throws on this review: every() reaches, in the
\* order of the keys, a bounded category whose find throws
CategoryThrows(review, cf) ==
  /\ IsArray(review.reviewCategory)
  /\ LET items == review.reviewCategory.items
         Reads(c) == cf[c] # <<RatingFloor, RatingCeiling>> /\ FindThrows(items, c)
     IN \E c \in DOMAIN cf :
          /\ Reads(c)
          /\ \A d \in DOMAIN cf :
               StringLess(d, c) => ~Reads(d) /\ PassesCategory(review, d, cf[d])

\* the variant that removes from the array while it walks it: the element
\* after a removed one is skipped
RECURSIVE RemoveWhileWalking(_, _)
RemoveWhileWalking(s, cf) ==
  IF s = <<>> THEN <<>>
  ELSE IF PassesCategoryFilters(Head(s), cf)
       THEN <<Head(s)>> \o RemoveWhileWalking(Tail(s), cf)
       ELSE IF Tail(s) = <<>> THEN <<>>
            ELSE <<Head(Tail(s))>> \o RemoveWhileWalking(Tail(Tail(s)), cf)

CategoryStepInPlace(st, f) ==
  [src |-> st.src, arr |-> RemoveWhileWalking(st.arr, f.categories), alias |-> FALSE]

CategoryStep(st, f) ==
  ArrayFilter(st, SelectSeq(st.arr, LAMBDA r : PassesCategoryFilters(r, f.categories)))

ApplyFilters(st, f) ==
  CategoryStep(SearchStep(DisplayStep(ChannelStep(PropertyStep(st, f), f), f), f), f)

----------------------------------------------------------------------------
(* displayableReviews: 2. Apply Sorting *)

DateDescCmp(a, b) == Minus(DateValue(b.submittedAt), DateValue(a.submittedAt))
DateAscCmp(a, b) == Minus(DateValue(a.submittedAt), DateValue(b.submittedAt))

\* review.rating || 0
RatingOrZero(review) == IF Truthy(review.rating) THEN review.rating ELSE 0

RatingDescCmp(a, b) == RatingOrZero(b) - RatingOrZero(a)
RatingAscCmp(a, b) == RatingOrZero(a) - RatingOrZero(b)

\* Array.isArray(r.reviewCategory) ? r.reviewCategory.find(...) : null
CategoryIndex(review, categoryName) ==
  IF IsArray(review.reviewCategory)
  THEN FindCategory(review.reviewCategory.items, categoryName)
  ELSE 0

CategoryCmp(a, b, categoryName, direction) ==
  LET ai == CategoryIndex(a, categoryName)
      bi == CategoryIndex(b, categoryName)
  IN IF ai = 0 /\ bi = 0 THEN 0
     ELSE IF ai = 0 THEN 1
     ELSE IF bi = 0 THEN 0 - 1
     ELSE LET aRating == a.reviewCategory.items[ai].rating
              bRating == b.reviewCategory.items[bi].rating
          IN IF direction = StrDesc THEN Minus(bRating, aRating) ELSE Minus(aRating, bRating)

\* const [categoryName, direction] = sortBy.split('-')
SortKeyParts(sb) ==
  LET parts == Split(sb)
  IN [categoryName |-> parts[1], direction |-> parts[2]]

\* the switch on sortBy
SortStep(st, sb) ==
  LET R == Range(st.arr)
  IN IF sb = StrDateDesc THEN ArraySort(st, [a \in R, b \in R |-> DateDescCmp(a, b)])
     ELSE IF sb = StrDateAsc THEN ArraySort(st, [a \in R, b \in R |-> DateAscCmp(a, b)])
     ELSE IF sb = StrRatingDesc THEN ArraySort(st, [a \in R, b \in R |-> RatingDescCmp(a, b)])
     ELSE IF sb = StrRatingAsc THEN ArraySort(st, [a \in R, b \in R |-> RatingAscCmp(a, b)])
     ELSE IF /\ Includes(sb, StrDash)
             /\ (EndsWith(sb, StrDash \o StrDesc) \/ EndsWith(sb, StrDash \o StrAsc))
          THEN LET key == SortKeyParts(sb)
               IN ArraySort(st, [a \in R, b \in R |->
                                   CategoryCmp(a, b, key.categoryName, key.direction)])
          ELSE {st}

\* the comparator of the category sort throws: it runs find on both sides
\* of every pair it is given
SortThrows(arr, sb) ==
  /\ sb \notin {StrDateDesc, StrDateAsc, StrRatingDesc, StrRatingAsc}
  /\ Includes(sb, StrDash)
  /\ (EndsWith(sb, StrDash \o StrDesc) \/ EndsWith(sb, StrDash \o StrAsc))
  /\ Len(arr) >= 2
  /\ \E i \in 1..Len(arr) :
       /\ IsArray(arr[i].reviewCategory)
       /\ FindThrows(arr[i].reviewCategory.items, SortKeyParts(sb).categoryName)

\* the displayableReviews memo throws over the reviews state rs
DisplayableThrows(rs, f, sb) ==
  LET st == DisplayStep(ChannelStep(PropertyStep(SpreadCopy(rs), f), f), f)
  IN IF /\ Trim(f.search) # <<>>
        /\ \E i \in 1..Len(st.arr) : SearchThrows(st.arr[i], ToLowerCase(f.search))
     THEN TRUE
     ELSE LET searched == SearchStep(st, f)
          IN IF \E i \in 1..Len(searched.arr) : CategoryThrows(searched.arr[i], f.categories)
             THEN TRUE
             ELSE SortThrows(CategoryStep(searched, f).arr, sb)

\* The outcomes of the displayableReviews memo over the reviews state rs:
\* the reviews array afterwards, processedReviews after the filters, and the
\* array returned.
DisplayableOutcomes(rs, f, sb) ==
  LET afterFilters == ApplyFilters(SpreadCopy(rs), f)
  IN {[src |-> o.src, filtered |-> afterFilters.arr, out |-> o.arr] :
        o \in SortStep(afterFilters, sb)}

----------------------------------------------------------------------------
(* Server: approval store and normalizeReview (start-all.js) *)

\* Ratings are held in hundredths: toFixed(2) keeps two decimals.
Scale == 100

\* the variant that shows a review without an entry: approvals[key] ?? true
ApprovalDefaultShown(approvals, key) ==
  IF key \in DOMAIN approvals THEN approvals[key] ELSE TRUE

\* approvals[key] || false
Approval(approvals, key) ==
  IF key \in DOMAIN approvals THEN approvals[key] ELSE FALSE

\* approvals[key] = value
WithApproval(approvals, key, value) ==
  [k \in DOMAIN approvals \cup {key} |-> IF k = key THEN value ELSE approvals[k]]

\* typeof x === 'number'
IsNumber(x) == x # Null /\ x # Undefined

\* cat && typeof cat.category === 'string' && typeof cat.rating === 'number'
HasRating(cat) == cat # NullObject /\ IsString(cat.category) /\ IsNumber(cat.rating)

\* The values of the ratings object that the reduce builds: one per category
\* name, a later entry of a name overwriting an earlier one.
RECURSIVE CategoryRatings(_, _)
CategoryRatings(items, i) ==
  IF i > Len(items) THEN <<>>
  ELSE IF /\ HasRating(items[i])
          /\ ~\E j \in (i + 1)..Len(items) :
                HasRating(items[j]) /\ items[j].category = items[i].category
       THEN <<items[i].rating>> \o CategoryRatings(items, i + 1)
       ELSE CategoryRatings(items, i + 1)

RECURSIVE Sum(_)
Sum(values) == IF values = <<>> THEN 0 ELSE Head(values) + Sum(Tail(values))

\* parseFloat((sum / n).toFixed(2)), in hundredths
MeanToFixed2(values) ==
  (2 * Scale * Sum(values) + Len(values)) \div (2 * Len(values))

StrUnknownGuest == <<"U", "n", "k", "n", "o", "w", "n", " ", "G", "u", "e", "s", "t">>
StrUnknownProperty ==
  <<"U", "n", "k", "n", "o", "w", "n", " ", "P", "r", "o", "p", "e", "r", "t", "y">>

NormalizeReview(review, approvals) ==
  LET reviewCategories ==
        IF IsArray(review.reviewCategory) THEN review.reviewCategory.items ELSE <<>>
      categoryRatings == CategoryRatings(reviewCategories, 1)
      averageRating ==
        IF Len(categoryRatings) > 0 THEN MeanToFixed2(categoryRatings)
        ELSE IF Truthy(review.rating) THEN review.rating * Scale ELSE Null
  IN [id |-> IF Truthy(review.id) THEN review.id ELSE Null,
      type |-> IF review.type # "" THEN review.type ELSE "unknown",
      status |-> IF review.status # "" THEN review.status ELSE "unknown",
      rating |-> averageRating,
      publicReview |-> IF FalsyText(review.publicReview) THEN <<>> ELSE review.publicReview,
      reviewCategory |-> ArrayOf(reviewCategories),
      submittedAt |-> review.submittedAt,
      guestName |-> IF FalsyText(review.guestName) THEN StrUnknownGuest
                    ELSE review.guestName,
      listingName |-> IF FalsyText(review.listingName) THEN StrUnknownProperty
                      ELSE review.listingName,
      displayOnWebsite |-> Approval(approvals, review.id)]

\* review.type of a raw record that is null: the filter callback throws
FilterThrows(raws) == \E i \in 1..Len(raws) : raws[i] = NullObject

\* reviewsToProcess.filter(type === 'guest-to-host').map(normalizeReview)
RECURSIVE NormalizeAll(_, _)
NormalizeAll(raws, approvals) ==
  IF raws = <<>> THEN <<>>
  ELSE IF Head(raws).type = "guest-to-host"
       THEN <<NormalizeReview(Head(raws), approvals)>> \o NormalizeAll(Tail(raws), approvals)
       ELSE NormalizeAll(Tail(raws), approvals)

\* parseInt(req.params.id) of the id the client put into the URL: an integer
\* id comes back as itself, the text "null" parses to NaN
ParseIntParam(id) == IF id = Null THEN NaN ELSE id

----------------------------------------------------------------------------
(* AnalyticsTab: the analytics memo (unnamed/part_000) *)

NoData == [noData |-> TRUE, totalReviews |-> 0, uniquePropertiesCount |-> 0]

\* selectedProperty === 'all' ? reviews : reviews.filter(...)
AnalyticsInput(rs, sel) ==
  IF sel = StrAll THEN SameArray(rs)
  ELSE ArrayFilter(SameArray(rs), SelectSeq(rs, LAMBDA r : r.listingName = sel))

\* the variant without filter and map: filteredReviews itself is sorted
TimeSeriesNoCopy(st) == st

\* filteredReviews.filter(review => review.submittedAt && review.rating).map(...)
TimeSeriesInput(st) ==
  ArrayFilter(st, SelectSeq(st.arr, LAMBDA r : r.submittedAt # "" /\ Truthy(r.rating)))

\* .sort((a, b) => a.date - b.date)
TimeSeriesData(st) ==
  LET input == TimeSeriesInput(st)
  IN ArraySort(input, [a \in Range(input.arr), b \in Range(input.arr) |-> DateAscCmp(a, b)])

\* categoryAverages[cat.category] of a null entry: the analytics memo throws
AnalyticsThrows(rs, sel) ==
  \E r \in Range(AnalyticsInput(rs, sel).arr) :
    /\ IsArray(r.reviewCategory)
    /\ \E k \in 1..Len(r.reviewCategory.items) : r.reviewCategory.items[k] = NullObject

\* A quotient total / count of the analytics, kept exact
Quotient(total, count) == [total |-> total, count |-> count]

\* the sign of a - b for two quotients with positive counts
QuotientMinus(a, b) == a.total * b.count - b.total * a.count

\* the sum of the ratings that `if (review.rating)` lets through
TotalRating(rs) ==
  Sum([i \in 1..Len(rs) |-> IF Truthy(rs[i].rating) THEN rs[i].rating ELSE 0])

\* the keys of ratingDistribution
BucketNames == <<"Excellent (9-10)", "Good (7-8)", "Average (5-6)", "Poor (1-4)">>

\* the bucket which the loop counts a rating in, "" when it counts it in none
BucketOf(rating) ==
  IF ~Truthy(rating) THEN ""
  ELSE IF rating >= 9 * Scale THEN BucketNames[1]
  ELSE IF rating >= 7 * Scale THEN BucketNames[2]
  ELSE IF rating >= 5 * Scale THEN BucketNames[3]
  ELSE BucketNames[4]

\* Object.entries(ratingDistribution).map(...).filter(d => d.value > 0)
RatingPieData(rs) ==
  LET value(b) == Cardinality({i \in 1..Len(rs) : BucketOf(rs[i].rating) = b})
      entries == [k \in 1..Len(BucketNames) |->
                    [name |-> BucketNames[k], value |-> value(BucketNames[k])]]
  IN SelectSeq(entries, LAMBDA d : d.value > 0)

\* filteredReviews.filter(r => r.rating) and the mean over it, 0 when it is empty
OverallAverage(rs) ==
  LET reviewsWithRating == SelectSeq(rs, LAMBDA r : Truthy(r.rating))
  IN IF Len(reviewsWithRating) > 0
     THEN Quotient(TotalRating(reviewsWithRating), Len(reviewsWithRating))
     ELSE Quotient(0, 1)

\* The entries which the loop over review.reviewCategory counts: those whose
\* category is a key of categoryAverages, in the order of the loop
RECURSIVE CountedEntries(_, _)
CountedEntries(rs, keys) ==
  IF rs = <<>> THEN <<>>
  ELSE LET rc == Head(rs).reviewCategory
       IN (IF IsArray(rc) THEN SelectSeq(rc.items, LAMBDA cat : cat.category \in keys)
           ELSE <<>>) \o CountedEntries(Tail(rs), keys)

\* total += cat.rating over the ratings: null adds 0, undefined makes it NaN
Total(ratings) ==
  IF \E i \in 1..Len(ratings) : ToNumber(ratings[i]) = NaN THEN NaN
  ELSE Sum([i \in 1..Len(ratings) |-> ToNumber(ratings[i])])

\* categoryAverages after the loop: for each detected category, in the order
\* of detectCategories, the total and the count of the entries of that name
CategoryAverages(rs) ==
  LET names == DetectCategories(rs)
  IN [k \in 1..Len(names) |->
        LET own == CountedEntries(rs, {names[k]})
        IN [name |-> names[k],
            total |-> Total([i \in 1..Len(own) |-> own[i].rating]),
            count |-> Len(own)]]

\* Object.entries(categoryAverages).map(...): subject, A and fullMark
CategoryChartData(rs) ==
  LET averages == CategoryAverages(rs)
  IN [k \in 1..Len(averages) |->
        [subject |-> Humanize(averages[k].name),
         A |-> IF averages[k].count > 0
               THEN Quotient(averages[k].total, averages[k].count)
               ELSE Quotient(0, 1),
         fullMark |-> 10]]

\* Object.entries(propertyStats): one entry per listingName, in the order in
\* which the loop first met the names
PropertyStats(rs) ==
  LET first == SelectSeq([i \in 1..Len(rs) |-> i],
                         LAMBDA i : \A j \in 1..(i - 1) : rs[j].listingName # rs[i].listingName)
  IN [k \in 1..Len(first) |->
        LET name == rs[first[k]].listingName
            own == SelectSeq(rs, LAMBDA r : r.listingName = name)
        IN [name |-> name, totalReviews |-> Len(own), totalRating |-> TotalRating(own),
            lowRatings |-> Len(SelectSeq(CountedEntries(own, CategorySet(rs)),
                                         LAMBDA cat : AtLeast(6, cat.rating)))]]

\* .map(stats => ({..., averageRating: totalRating / totalReviews}))
\* .sort((a, b) => b.averageRating - a.averageRating)
PropertiesByRating(rs) ==
  LET stats == PropertyStats(rs)
      entries == [k \in 1..Len(stats) |->
                    [name |-> stats[k].name, totalReviews |-> stats[k].totalReviews,
                     totalRating |-> stats[k].totalRating,
                     lowRatings |-> stats[k].lowRatings,
                     averageRating |-> Quotient(stats[k].totalRating, stats[k].totalReviews)]]
  IN SortOutcomes(entries, [a \in Range(entries), b \in Range(entries) |->
                              QuotientMinus(b.averageRating, a.averageRating)])

\* getFullYear() and getMonth() of new Date(submittedAt): the month counted
\* from year 0, NaN for an Invalid Date
MonthOf(s) ==
  LET f == DateFields(s)
  IN IF f = <<>> THEN NaN ELSE f[1] * 12 + (f[2] - 1)

\* Object.values(monthlyAverages).map(...): one bucket per monthKey, in the
\* order in which the reduce first met the keys ("NaN-NaN" is a key too)
MonthlyAverages(ts) ==
  LET first == SelectSeq([i \in 1..Len(ts) |-> i],
                         LAMBDA i : \A j \in 1..(i - 1) :
                                      MonthOf(ts[j].submittedAt) # MonthOf(ts[i].submittedAt))
  IN [k \in 1..Len(first) |->
        LET month == MonthOf(ts[first[k]].submittedAt)
            own == SelectSeq(ts, LAMBDA r : MonthOf(r.submittedAt) = month)
        IN [month |-> month, averageRating |-> Quotient(TotalRating(own), Len(own))]]

\* .sort((a, b) => a.date - b.date) of the monthly buckets
RatingOverTimeData(ts) ==
  LET buckets == MonthlyAverages(ts)
  IN SortOutcomes(buckets, [a \in Range(buckets), b \in Range(buckets) |->
                              Minus(a.month, b.month)])

\* the variant that computes the analytics of no reviews as well
SomeReviewsAlways(arr) == FALSE

\* !filteredReviews || filteredReviews.length === 0
NoReviews(arr) == Len(arr) = 0

\* The outcomes of the analytics memo over the reviews prop rs: the reviews
\* array afterwards and the value returned.
AnalyticsOutcomes(rs, sel) ==
  LET filteredReviews == AnalyticsInput(rs, sel)
  IN IF NoReviews(filteredReviews.arr)
     THEN {[src |-> filteredReviews.src, result |-> NoData]}
     ELSE {[src |-> ts.src,
            result |-> [noData |-> FALSE,
                        totalReviews |-> Len(filteredReviews.arr),
                        overallAverage |-> OverallAverage(filteredReviews.arr),
                        uniquePropertiesCount |->
                          Cardinality({r.listingName : r \in Range(filteredReviews.arr)}),
                        categoryChartData |-> CategoryChartData(filteredReviews.arr),
                        ratingPieData |-> RatingPieData(filteredReviews.arr),
                        propertiesByRating |-> byRating,
                        ratingOverTimeData |-> overTime]] :
             <<ts, byRating, overTime>> \in
               {<<t, p, o>> \in TimeSeriesData(filteredReviews)
                                \X PropertiesByRating(filteredReviews.arr)
                                \X UNION {RatingOverTimeData(t.arr) :
                                            t \in TimeSeriesData(filteredReviews)} :
                  o \in RatingOverTimeData(t.arr)}}

----------------------------------------------------------------------------
(* PropertyPage *)

\* "2 Bed Balcony Flat Chelsea Harbour"
StrChelseaHarbour == <<"C", "h", "e", "l", "s", "e", "a">>

\* the variant that looks at the property alone
ApprovedReviewsOfProperty(rs) ==
  SelectSeq(rs, LAMBDA review : review.listingName = StrChelseaHarbour)

\* reviews.filter(review => review.listingName === "..." && review.displayOnWebsite)
ApprovedReviews(rs) ==
  SelectSeq(rs, LAMBDA review :
    review.listingName = StrChelseaHarbour /\ review.displayOnWebsite = TRUE)

----------------------------------------------------------------------------
(* Data *)

StrClean == <<"c", "l", "e", "a", "n">>
StrComm == <<"c", "o", "m", "m">>
StrCheckIn == <<"c", "h", "e", "c", "k", "-", "i", "n">>
StrDate == <<"d", "a", "t", "e">>
StrRating == <<"r", "a", "t", "i", "n", "g">>
StrShoreditch == <<"S", "h", "o", "r", "e">>
StrAnn == <<"A", "n", "n">>
StrBob == <<"B", "o", "b">>
StrGood == <<"g", "o", "o", "d", " ", "b", "e", "d">>

Cat(name, rating) == [category |-> name, rating |-> rating]

Raw(id, type, listingName, guestName, publicReview, reviewCategory, submittedAt, rating) ==
  [id |-> id, type |-> type, status |-> "published", rating |-> rating,
   publicReview |-> publicReview, reviewCategory |-> reviewCategory,
   submittedAt |-> submittedAt, guestName |-> guestName, listingName |-> listingName]

\* mock-reviews.json, as readMockReviews returns it
MockReviews ==
  <<Raw(1, "guest-to-host", StrChelseaHarbour, StrAnn, StrGood,
        ArrayOf(<<Cat(StrClean, 10), Cat(StrComm, 8)>>), "2023-11-02", Undefined),
    Raw(3, "host-to-guest", StrChelseaHarbour, StrBob, <<>>,
        ArrayOf(<<>>), "2023-03-25", 10),
    Raw(2, "guest-to-host", StrShoreditch, StrBob, <<>>,
        ArrayOf(<<Cat(StrClean, 6)>>), "2023-03-10", Undefined),
    Raw(Undefined, "guest-to-host", StrChelseaHarbour, Absent, <<>>,
        NoCategories, "2023-03-25", 9)>>

\* The Hostaway API as the server meets it: token is whether
\* authenticateHostaway obtains a token, response how the reviews request
\* ends ("success", "fail" for a status other than success, "throws"),
\* result the reviews it carries
Hostaway(token, response, result) ==
  [token |-> token, response |-> response, result |-> result]

\* the variant that takes the result whatever the status of the response
FetchIgnoringStatus(api) ==
  IF ~api.token THEN <<>> ELSE api.result

\* fetchHostawayReviews: [] without a token, after a throw and for a
\* response that is no success
FetchHostawayReviews(api) ==
  IF ~api.token THEN <<>>
  ELSE IF api.response = "success" THEN api.result
  ELSE <<>>

HostawayDown == Hostaway(FALSE, "throws", <<>>)

\* what the Hostaway API returns when it has reviews
HostawayReviews ==
  <<Raw(1, "guest-to-host", StrChelseaHarbour, StrBob, StrGood,
        ArrayOf(<<Cat(StrComm, 9)>>), "2024-01-15", Undefined),
    Raw(2, "guest-to-host", StrChelseaHarbour, StrAnn, <<>>,
        ArrayOf(<<Cat(StrComm, 5)>>), "2023-03-10", Undefined)>>

----------------------------------------------------------------------------
(* Bounds *)

MaxToggles == 2
MaxPageLoads == 1
MaxEdits == 1

----------------------------------------------------------------------------
(* Server handlers *)

EmptyMap == [k \in {} |-> FALSE]

Replace(set, old, new) == (set \ {old}) \cup {new}

\* GET /api/reviews/hostaway from readApprovals on: the reviews of the real
\* API when it returned some, the mock reviews otherwise, normalized with
\* the approval states read from the file
GetRespond(g) ==
  /\ g.pc = "req"
  /\ LET realHostawayReviews == FetchHostawayReviews(upstream)
         reviewsToProcess ==
           IF Len(realHostawayReviews) > 0 THEN realHostawayReviews ELSE MockReviews
         approvals == approvalsFile
     IN IF FilterThrows(reviewsToProcess)
        THEN gets' = Replace(gets, g, [g EXCEPT !.pc = "resp", !.status = 500])
        ELSE gets' = Replace(gets, g, [g EXCEPT !.pc = "resp", !.status = 200,
                                        !.result = NormalizeAll(reviewsToProcess, approvals)])
  /\ lastEvent' = "getRespond"
  /\ UNCHANGED <<upstream, approvalsFile, puts, toggles, pageLoads, dataVars, viewVars,
                 analyticsVars, pageVars, edits, acked>>

\* the request fails on the way: axios rejects
GetFail(g) ==
  /\ g.pc = "req"
  /\ gets' = Replace(gets, g, [g EXCEPT !.pc = "resp", !.status = 0])
  /\ lastEvent' = "getFail"
  /\ UNCHANGED <<upstream, approvalsFile, puts, toggles, pageLoads, dataVars, viewVars,
                 analyticsVars, pageVars, edits, acked>>

\* the variant without the typeof test: any body is stored
AnyBody(p) == TRUE

\* typeof displayOnWebsite === 'boolean'; body is the typeof of the field of
\* the request body, "undefined" when the body has no such field
IsBoolean(p) == p.body = "boolean"

\* PUT /api/reviews/:id/approval with a displayOnWebsite that is no boolean:
\* res.status(400), before the approvals are read
PutInvalid(p) ==
  /\ p.pc = "req"
  /\ ~IsBoolean(p)
  /\ puts' = Replace(puts, p, [p EXCEPT !.pc = "resp", !.status = 400])
  /\ lastEvent' = "putInvalid"
  /\ UNCHANGED <<upstream, approvalsFile, gets, toggles, pageLoads, dataVars, viewVars,
                 analyticsVars, pageVars, edits, acked>>

\* PUT /api/reviews/:id/approval up to "await readApprovals()"
PutRead(p) ==
  /\ p.pc = "req"
  /\ IsBoolean(p)
  /\ puts' = Replace(puts, p, [p EXCEPT !.pc = "read", !.approvals = approvalsFile])
  /\ lastEvent' = "putRead"
  /\ UNCHANGED <<upstream, approvalsFile, gets, toggles, pageLoads, dataVars, viewVars,
                 analyticsVars, pageVars, edits, acked>>

\* approvals[reviewId] = displayOnWebsite; await writeApprovals(approvals);
\* res.status(200)
PutWrite(p) ==
  /\ p.pc = "read"
  /\ approvalsFile' = WithApproval(p.approvals, ParseIntParam(p.id), p.value)
  /\ puts' = Replace(puts, p, [p EXCEPT !.pc = "resp", !.status = 200])
  /\ acked' = WithApproval(acked, p.id, p.value)
  /\ lastEvent' = "putWrite"
  /\ UNCHANGED <<upstream, gets, toggles, pageLoads, dataVars, viewVars, analyticsVars,
                 pageVars, edits>>

\* writeApprovals throws: res.status(500)
PutWriteFail(p) ==
  /\ p.pc = "read"
  /\ puts' = Replace(puts, p, [p EXCEPT !.pc = "resp", !.status = 500])
  /\ lastEvent' = "putWriteFail"
  /\ UNCHANGED <<upstream, approvalsFile, gets, toggles, pageLoads, dataVars, viewVars,
                 analyticsVars, pageVars, edits, acked>>

\* the request fails on the way: axios rejects
PutReject(p) ==
  /\ p.pc = "req"
  /\ puts' = Replace(puts, p, [p EXCEPT !.pc = "resp", !.status = 0])
  /\ lastEvent' = "putReject"
  /\ UNCHANGED <<upstream, approvalsFile, gets, toggles, pageLoads, dataVars, viewVars,
                 analyticsVars, pageVars, edits, acked>>

----------------------------------------------------------------------------
(* DashboardPage *)

NoError == "null"
FetchError == "Failed to fetch reviews. Is the backend server running?"

FullRange == <<RatingFloor, RatingCeiling>>

CurrentFilter ==
  FilterSpec(propertyFilter, channelFilter, publicDisplayFilter, searchQuery, categoryFilters)

\* the review list is on screen: neither the spinner nor the error text
Rendered == ~loading /\ error = NoError /\ ~crashed

\* a render after the reviews state became rs: both memos recompute
RenderReviews(rs, f, sb, sel) ==
  IF DisplayableThrows(rs, f, sb) \/ AnalyticsThrows(rs, sel)
  THEN /\ crashed' = TRUE
       /\ reviews' = rs
       /\ UNCHANGED <<filtered, displayableReviews, analytics>>
  ELSE /\ crashed' = crashed
       /\ \E d \in DisplayableOutcomes(rs, f, sb) :
            \E a \in AnalyticsOutcomes(d.src, sel) :
              /\ reviews' = a.src
              /\ filtered' = d.filtered
              /\ displayableReviews' = d.out
              /\ analytics' = a.result

\* a render after a filter or sort control changed: displayableReviews recomputes
RenderControls(f, sb) ==
  IF DisplayableThrows(reviews, f, sb)
  THEN /\ crashed' = TRUE
       /\ UNCHANGED <<reviews, filtered, displayableReviews>>
  ELSE /\ crashed' = crashed
       /\ \E d \in DisplayableOutcomes(reviews, f, sb) :
            /\ reviews' = d.src
            /\ filtered' = d.filtered
            /\ displayableReviews' = d.out

\* a render after selectedProperty changed: analytics recomputes
RenderAnalytics(sel) ==
  IF AnalyticsThrows(reviews, sel)
  THEN /\ crashed' = TRUE
       /\ UNCHANGED <<reviews, analytics>>
  ELSE /\ crashed' = crashed
       /\ \E a \in AnalyticsOutcomes(reviews, sel) :
            /\ reviews' = a.src
            /\ analytics' = a.result

\* availableCategories.forEach(category => initialCategoryFilters[category] = [0, 10])
InitialCategoryFilters(rs) == [c \in CategorySet(rs) |-> FullRange]

\* the variant without the finally block: the spinner stays
LoadingKept == TRUE

\* finally { setLoading(false) }
LoadingAfterFetch == FALSE

\* fetchReviews: the response arrived with status "success"
FetchOk(g) ==
  /\ g.client = "dashboard" /\ g.pc = "resp" /\ g.status = 200
  /\ gets' = gets \ {g}
  /\ categoryFilters' = InitialCategoryFilters(g.result)
  /\ loading' = LoadingAfterFetch
  /\ RenderReviews(g.result,
                   FilterSpec(propertyFilter, channelFilter, publicDisplayFilter,
                              searchQuery, InitialCategoryFilters(g.result)),
                   sortBy, selectedProperty)
  /\ lastEvent' = "fetchOk"
  /\ UNCHANGED <<upstream, approvalsFile, puts, toggles, pageLoads, error, propertyFilter,
                 channelFilter, publicDisplayFilter, searchQuery, sortBy,
                 selectedProperty, pageVars, edits, acked>>

\* fetchReviews: catch and finally
FetchErr(g) ==
  /\ g.client = "dashboard" /\ g.pc = "resp" /\ g.status # 200
  /\ gets' = gets \ {g}
  /\ error' = FetchError
  /\ loading' = LoadingAfterFetch
  /\ lastEvent' = "fetchErr"
  /\ UNCHANGED <<upstream, approvalsFile, puts, toggles, pageLoads, reviews, crashed,
                 viewVars, analyticsVars, pageVars, edits, acked>>

\* reviews.find(review => review.id === reviewId)
FindReview(rs, reviewId) ==
  IF \E i \in 1..Len(rs) : rs[i].id = reviewId
  THEN CHOOSE i \in 1..Len(rs) :
         rs[i].id = reviewId /\ \A j \in 1..(i - 1) : rs[j].id # reviewId
  ELSE 0

\* handleDisplayToggle up to the await: the switch of a card on screen is
\* clicked and the PUT leaves
ToggleWithin(reviewId, bound) ==
  /\ Rendered
  /\ toggles < bound
  /\ \E i \in 1..Len(displayableReviews) : displayableReviews[i].id = reviewId
  /\ FindReview(reviews, reviewId) # 0
  /\ LET currentReview == reviews[FindReview(reviews, reviewId)]
         newDisplayStatus == ~currentReview.displayOnWebsite
     IN puts' = puts \cup {[n |-> toggles + 1, id |-> reviewId, body |-> "boolean",
                            value |-> newDisplayStatus,
                            pc |-> "req", status |-> 0, approvals |-> EmptyMap]}
  /\ toggles' = toggles + 1
  /\ gets' = {[g EXCEPT !.unsettled = g.unsettled \cup {reviewId}] : g \in gets}
  /\ lastEvent' = "toggle"
  /\ UNCHANGED <<upstream, approvalsFile, pageLoads, dataVars, viewVars, analyticsVars,
                 pageVars, edits, acked>>

Toggle(reviewId) == ToggleWithin(reviewId, MaxToggles)

\* the optimistic variant: the local state is updated whatever the answer
StatusCommitsAlways(status) == TRUE

\* if (response.status === 200): the local state is updated
StatusCommits(status) == status = 200

\* currentReviews.map(review => review.id === reviewId ? {...review, displayOnWebsite} : review)
ApplyToggle(rs, reviewId, newDisplayStatus) ==
  [i \in 1..Len(rs) |->
     IF rs[i].id = reviewId
     THEN [rs[i] EXCEPT !.displayOnWebsite = newDisplayStatus]
     ELSE rs[i]]

\* handleDisplayToggle after the await
SettleToggle(p) ==
  /\ p.pc = "resp"
  /\ puts' = puts \ {p}
  /\ IF StatusCommits(p.status)
     THEN RenderReviews(ApplyToggle(reviews, p.id, p.value), CurrentFilter, sortBy,
                        selectedProperty)
     ELSE UNCHANGED <<reviews, crashed, filtered, displayableReviews, analytics>>
  /\ UNCHANGED <<upstream, approvalsFile, gets, toggles, pageLoads, loading, error, filterVars,
                 sortBy, selectedProperty, pageVars, edits, acked>>

\* the PUT answered 200
ToggleOk(p) == p.status = 200 /\ SettleToggle(p) /\ lastEvent' = "toggleOk"

\* the PUT rejected (no response, or a status outside 2xx): console.error
ToggleErr(p) == p.status # 200 /\ SettleToggle(p) /\ lastEvent' = "toggleErr"

\* [...new Set(reviews.map(r => r.listingName))]
UniqueProperties(rs) == {rs[i].listingName : i \in 1..Len(rs)}

\* the text typed into the search bar
SearchQueries ==
  {<<>>, <<" ">>, <<"b", "o">>, <<"A", "N">>, <<" ", "b">>, <<"x">>}

\* the positions the range slider of a category is moved to
SliderRanges == {FullRange, <<8, RatingCeiling>>, <<RatingFloor, 7>>, <<6, 9>>}

\* baseSortOptions and categorySortOptions
SortOptions(cf) ==
  {StrDateDesc, StrDateAsc, StrRatingDesc, StrRatingAsc}
    \cup {category \o StrDash \o StrDesc : category \in DOMAIN cf}
    \cup {category \o StrDash \o StrAsc : category \in DOMAIN cf}

\* "Filter by Property", and navigateToReviewsWithFilter
SetPropertyFilter(v) ==
  /\ Rendered
  /\ v \in {StrAll} \cup UniqueProperties(reviews)
  /\ v # propertyFilter
  /\ propertyFilter' = v
  /\ RenderControls(FilterSpec(v, channelFilter, publicDisplayFilter, searchQuery,
                               categoryFilters), sortBy)
  /\ UNCHANGED <<serverVars, loading, error, channelFilter, publicDisplayFilter,
                 searchQuery, categoryFilters, sortBy, analyticsVars, pageVars, acked, lastEvent>>

\* "Filter by Channel"
SetChannelFilter(v) ==
  /\ Rendered
  /\ v \in {"all", "Hostaway"}
  /\ v # channelFilter
  /\ channelFilter' = v
  /\ RenderControls(FilterSpec(propertyFilter, v, publicDisplayFilter, searchQuery,
                               categoryFilters), sortBy)
  /\ UNCHANGED <<serverVars, loading, error, propertyFilter, publicDisplayFilter,
                 searchQuery, categoryFilters, sortBy, analyticsVars, pageVars, acked, lastEvent>>

\* "Public Display Status"
SetPublicDisplayFilter(v) ==
  /\ Rendered
  /\ v \in {"all", "shown", "hidden"}
  /\ v # publicDisplayFilter
  /\ publicDisplayFilter' = v
  /\ RenderControls(FilterSpec(propertyFilter, channelFilter, v, searchQuery,
                               categoryFilters), sortBy)
  /\ UNCHANGED <<serverVars, loading, error, propertyFilter, channelFilter,
                 searchQuery, categoryFilters, sortBy, analyticsVars, pageVars, acked, lastEvent>>

\* the search bar
SetSearchQuery(v) ==
  /\ Rendered
  /\ v \in SearchQueries
  /\ v # searchQuery
  /\ searchQuery' = v
  /\ RenderControls(FilterSpec(propertyFilter, channelFilter, publicDisplayFilter, v,
                               categoryFilters), sortBy)
  /\ UNCHANGED <<serverVars, loading, error, propertyFilter, channelFilter,
                 publicDisplayFilter, categoryFilters, sortBy, analyticsVars, pageVars,
                 acked, lastEvent>>

\* a category's range slider: setCategoryFilters(prev => ({...prev, [category]: newValue}))
SetCategoryFilter(category, newValue) ==
  /\ Rendered
  /\ category \in DOMAIN categoryFilters
  /\ newValue \in SliderRanges
  /\ newValue # categoryFilters[category]
  /\ categoryFilters' = [categoryFilters EXCEPT ![category] = newValue]
  /\ RenderControls(FilterSpec(propertyFilter, channelFilter, publicDisplayFilter,
                               searchQuery,
                               [categoryFilters EXCEPT ![category] = newValue]), sortBy)
  /\ UNCHANGED <<serverVars, loading, error, propertyFilter, channelFilter,
                 publicDisplayFilter, searchQuery, sortBy, analyticsVars, pageVars, acked, lastEvent>>

\* "Sort By"
SetSortBy(v) ==
  /\ Rendered
  /\ v \in SortOptions(categoryFilters)
  /\ v # sortBy
  /\ sortBy' = v
  /\ RenderControls(CurrentFilter, v)
  /\ UNCHANGED <<serverVars, loading, error, filterVars, analyticsVars, pageVars, acked, lastEvent>>

\* AnalyticsTab: the property selector
SelectProperty(v) ==
  /\ Rendered
  /\ v \in {StrAll} \cup UniqueProperties(reviews)
  /\ v # selectedProperty
  /\ selectedProperty' = v
  /\ RenderAnalytics(v)
  /\ UNCHANGED <<serverVars, loading, error, viewVars, pageVars, acked, lastEvent>>

----------------------------------------------------------------------------
(* PropertyPage actions *)

\* the ids with a PUT that the server has not finished
Unsettled == {p.id : p \in {q \in puts : q.pc # "resp"}}

\* the page mounts: useState([]) and the GET of useEffect
PageMount ==
  /\ pageLoads < MaxPageLoads
  /\ ~\E g \in gets : g.client = "page"
  /\ gets' = gets \cup {[client |-> "page", pc |-> "req", status |-> 0,
                         result |-> <<>>, expect |-> acked, unsettled |-> Unsettled]}
  /\ pageLoads' = pageLoads + 1
  /\ pageReviews' = <<>>
  /\ approvedReviews' = ApprovedReviews(<<>>)
  /\ lastEvent' = "pageMount"
  /\ UNCHANGED <<upstream, approvalsFile, puts, toggles, dataVars, viewVars,
                 analyticsVars, edits, acked>>

\* .then: setReviews(response.data.result)
PageFetchOk(g) ==
  /\ g.client = "page" /\ g.pc = "resp" /\ g.status = 200
  /\ gets' = gets \ {g}
  /\ pageReviews' = g.result
  /\ approvedReviews' = ApprovedReviews(g.result)
  /\ lastEvent' = "pageFetchOk"
  /\ UNCHANGED <<upstream, approvalsFile, puts, toggles, pageLoads, dataVars, viewVars,
                 analyticsVars, edits, acked>>

\* .catch: console.error
PageFetchErr(g) ==
  /\ g.client = "page" /\ g.pc = "resp" /\ g.status # 200
  /\ gets' = gets \ {g}
  /\ lastEvent' = "pageFetchErr"
  /\ UNCHANGED <<upstream, approvalsFile, puts, toggles, pageLoads, dataVars, viewVars,
                 analyticsVars, pageVars, edits, acked>>

----------------------------------------------------------------------------
(* The system: server, dashboard and property page *)

Init ==
  /\ upstream \in {HostawayDown, Hostaway(TRUE, "success", HostawayReviews)}
  /\ approvalsFile = EmptyMap
  /\ puts = {}
  /\ gets = {[client |-> "dashboard", pc |-> "req", status |-> 0,
              result |-> <<>>, expect |-> EmptyMap, unsettled |-> {}]}
  /\ toggles = 0
  /\ pageLoads = 0
  /\ reviews = <<>>
  /\ loading = TRUE
  /\ error = NoError
  /\ crashed = FALSE
  /\ propertyFilter = StrAll
  /\ channelFilter = "all"
  /\ publicDisplayFilter = "all"
  /\ sortBy = StrDateDesc
  /\ searchQuery = <<>>
  /\ categoryFilters = [c \in {} |-> FullRange]
  /\ filtered = <<>>
  /\ displayableReviews = <<>>
  /\ selectedProperty = StrAll
  /\ analytics = NoData
  /\ pageReviews = <<>>
  /\ approvedReviews = <<>>
  /\ edits = 0
  /\ acked = EmptyMap
  /\ lastEvent = "init"

\* one more change of a control
Edit == edits < MaxEdits /\ edits' = edits + 1

Next ==
  \/ \E g \in gets : GetRespond(g)
  \/ \E g \in gets : GetFail(g)
  \/ \E g \in gets : FetchOk(g)
  \/ \E g \in gets : FetchErr(g)
  \/ \E g \in gets : PageFetchOk(g)
  \/ \E g \in gets : PageFetchErr(g)
  \/ \E p \in puts : PutRead(p)
  \/ \E p \in puts : PutWrite(p)
  \/ \E p \in puts : PutWriteFail(p)
  \/ \E p \in puts : PutReject(p)
  \/ \E p \in puts : ToggleOk(p)
  \/ \E p \in puts : ToggleErr(p)
  \/ \E i \in 1..Len(displayableReviews) : Toggle(displayableReviews[i].id)
  \/ PageMount

Spec == Init /\ [][Next]_vars

\* the dashboard alone, with its controls in use
NextFrame ==
  \/ \E g \in gets : GetRespond(g)
  \/ \E g \in gets : GetFail(g)
  \/ \E g \in gets : FetchOk(g)
  \/ \E g \in gets : FetchErr(g)
  \/ \E p \in puts : PutRead(p)
  \/ \E p \in puts : PutWrite(p)
  \/ \E p \in puts : PutWriteFail(p)
  \/ \E p \in puts : PutReject(p)
  \/ \E p \in puts : ToggleOk(p)
  \/ \E p \in puts : ToggleErr(p)
  \/ \E i \in 1..Len(displayableReviews) : Toggle(displayableReviews[i].id)
  \/ \E v \in {StrAll} \cup UniqueProperties(reviews) : Edit /\ SetPropertyFilter(v)
  \/ \E v \in {"all", "Hostaway"} : Edit /\ SetChannelFilter(v)
  \/ \E v \in {"all", "shown", "hidden"} : Edit /\ SetPublicDisplayFilter(v)
  \/ \E v \in SearchQueries : Edit /\ SetSearchQuery(v)
  \/ \E category \in DOMAIN categoryFilters :
       \E newValue \in SliderRanges : Edit /\ SetCategoryFilter(category, newValue)
  \/ \E v \in SortOptions(categoryFilters) : Edit /\ SetSortBy(v)
  \/ \E v \in {StrAll} \cup UniqueProperties(reviews) : Edit /\ SelectProperty(v)

SpecFrame == Init /\ [][NextFrame]_vars

----------------------------------------------------------------------------
(* The filter and sort pipeline of the dashboard over fetched collections *)

MaxFilterLen == 2
MaxSortLen == 3

\* a canonical Review as the dashboard receives it
Review(id, listingName, guestName, publicReview, reviewCategory, submittedAt, rating, shown) ==
  [id |-> id, type |-> "guest-to-host", status |-> "published", rating |-> rating,
   publicReview |-> publicReview, reviewCategory |-> reviewCategory,
   submittedAt |-> submittedAt, guestName |-> guestName, listingName |-> listingName,
   displayOnWebsite |-> shown]

\* all the sequences of at most n elements of U
Collections(U, n) == UNION {[1..k -> U] : k \in 0..n}

\* reviews that tell the filters apart: two properties, shown and hidden,
\* texts in mixed case, a category entered twice, no array of categories
FilterReviews ==
  {Review(1, StrChelseaHarbour, StrAnn, StrGood,
          ArrayOf(<<Cat(StrClean, 9), Cat(StrComm, 5)>>), "2024-01-15", 700, TRUE),
   Review(2, StrShoreditch, StrBob, <<>>,
          ArrayOf(<<Cat(StrClean, 7), Cat(StrClean, 9)>>), "2023-11-02", 900, FALSE),
   Review(3, StrChelseaHarbour, StrBob, <<>>,
          ArrayOf(<<Cat(StrComm, 8)>>), "2023-03-25", 800, FALSE),
   Review(4, StrShoreditch, StrAnn, StrGood, NoCategories, "2023-03-10", 600, TRUE),
   Review(5, StrChelseaHarbour, StrUnknownGuest, <<>>, NotASequence, "2023-03-10", Null, FALSE)}

\* reviews that tell the sort keys apart: categories named with the
\* separator and like the base keys, equal ratings, dates that do not parse
SortReviews ==
  {Review(1, StrChelseaHarbour, StrAnn, <<>>,
          ArrayOf(<<Cat(StrClean, 9), Cat(StrDate, 2)>>), "2024-01-15", 550, FALSE),
   Review(2, StrChelseaHarbour, StrBob, <<>>,
          ArrayOf(<<Cat(StrClean, 5), Cat(StrCheckIn, 8)>>), "2023-03-10", 650, FALSE),
   Review(3, StrShoreditch, StrAnn, <<>>,
          ArrayOf(<<Cat(StrCheckIn, 3), Cat(StrRating, 7)>>), "", 500, FALSE),
   Review(4, StrShoreditch, StrBob, <<>>,
          ArrayOf(<<Cat(StrRating, 4), Cat(StrDate, 6)>>), "2023-11-02", 500, FALSE),
   Review(5, StrChelseaHarbour, StrAnn, <<>>, NoCategories, "n/a", Null, FALSE)}

\* the dashboard showing a collection rs it has fetched, every control as
\* it starts, the server idle
Showing(rs) ==
  /\ upstream = HostawayDown
  /\ approvalsFile = EmptyMap
  /\ puts = {}
  /\ gets = {}
  /\ toggles = 0
  /\ pageLoads = 0
  /\ loading = FALSE
  /\ error = NoError
  /\ crashed = FALSE
  /\ propertyFilter = StrAll
  /\ channelFilter = "all"
  /\ publicDisplayFilter = "all"
  /\ sortBy = StrDateDesc
  /\ searchQuery = <<>>
  /\ categoryFilters = InitialCategoryFilters(rs)
  /\ selectedProperty = StrAll
  /\ \E d \in DisplayableOutcomes(rs, FilterSpec(StrAll, "all", "all", <<>>,
                                                 InitialCategoryFilters(rs)), StrDateDesc) :
       \E a \in AnalyticsOutcomes(d.src, StrAll) :
         /\ reviews = a.src
         /\ filtered = d.filtered
         /\ displayableReviews = d.out
         /\ analytics = a.result
  /\ pageReviews = <<>>
  /\ approvedReviews = <<>>
  /\ edits = 0
  /\ acked = EmptyMap
  /\ lastEvent = "fetchOk"

\* a change of a control that is not counted
Free == edits' = edits

InitFilter == \E rs \in Collections(FilterReviews, MaxFilterLen) : Showing(rs)

NextFilter ==
  \/ \E v \in {StrAll} \cup UniqueProperties(reviews) : Free /\ SetPropertyFilter(v)
  \/ \E v \in {"all", "Hostaway"} : Free /\ SetChannelFilter(v)
  \/ \E v \in {"all", "shown", "hidden"} : Free /\ SetPublicDisplayFilter(v)
  \/ \E v \in SearchQueries : Free /\ SetSearchQuery(v)
  \/ \E category \in DOMAIN categoryFilters :
       \E newValue \in SliderRanges : Free /\ SetCategoryFilter(category, newValue)

SpecFilter == InitFilter /\ [][NextFilter]_vars

InitSort == \E rs \in Collections(SortReviews, MaxSortLen) : Showing(rs)

NextSort == \E v \in SortOptions(categoryFilters) : Free /\ SetSortBy(v)

SpecSort == InitSort /\ [][NextSort]_vars

----------------------------------------------------------------------------
(* Properties of the system *)

\* the PUT requests whose answer the dashboard takes in this step
SettledNow == {p \in puts : p.pc = "resp" /\ p \notin puts'}

\* C1: a review's displayOnWebsite changes in the dashboard's collection only
\* in the step that takes the answer 200 of a PUT for that review, and to the
\* value that PUT carried; the step that takes a failed or rejected PUT leaves
\* the collection exactly as it was.
ToggleCommitsOnlyAfter200 ==
  [][/\ \A i \in 1..Len(reviews) :
          (Len(reviews') = Len(reviews)
             /\ reviews'[i].displayOnWebsite # reviews[i].displayOnWebsite)
          => \E p \in SettledNow :
                p.status = 200 /\ p.id = reviews[i].id
                  /\ reviews'[i].displayOnWebsite = p.value
     /\ \A p \in SettledNow : p.status # 200 => reviews' = reviews]_vars

\* a PUT has failed and the dashboard has taken the failure
ToggleFailureTaken ==
  lastEvent = "toggleErr" /\ Len(reviews) > 0 /\ toggles > 0

\* C2: a GET answers every review that carries an id with the value of the
\* latest PUT answered 200 for that id, false when there was none, unless a PUT
\* for that id was under way while the GET was.
ApprovalRoundTrip ==
  \A g \in gets :
    (g.pc = "resp" /\ g.status = 200) =>
      \A i \in 1..Len(g.result) :
        LET id == g.result[i].id
        IN (id # Null /\ id \notin g.unsettled)
             => g.result[i].displayOnWebsite = Approval(g.expect, id)

\* C3: the reviews state changes only when the fetched collection is stored
\* and when a PUT answered 200 is taken, which changes nothing but the
\* displayOnWebsite of the reviews of its id; no change of a filter, of the
\* sort key or of the analytics property changes it.
ReviewsFrame ==
  [][reviews' # reviews =>
       \/ \E g \in gets :
            g.client = "dashboard" /\ g.pc = "resp" /\ g.status = 200
              /\ g \notin gets' /\ reviews' = g.result
       \/ \E p \in SettledNow :
            /\ p.status = 200
            /\ Len(reviews') = Len(reviews)
            /\ \A i \in 1..Len(reviews) :
                 \/ reviews'[i] = reviews[i]
                 \/ /\ reviews[i].id = p.id
                    /\ reviews'[i] = [reviews[i] EXCEPT !.displayOnWebsite = p.value]]_vars

\* a sort key under which the cards are in another order than the reviews
\* state, after a toggle was committed
SortedViewDiffers ==
  /\ edits > 0
  /\ Len(displayableReviews) = Len(reviews)
  /\ displayableReviews # reviews
  /\ sortBy # StrDateDesc
  /\ \E i \in 1..Len(reviews) : reviews[i].displayOnWebsite

\* C4: every review the property page lists is a review it fetched whose
\* listingName is the page's property and whose displayOnWebsite is true.
PageListsOnlyApproved ==
  \A i \in 1..Len(approvedReviews) :
    /\ approvedReviews[i] \in Range(pageReviews)
    /\ approvedReviews[i].listingName = StrChelseaHarbour
    /\ approvedReviews[i].displayOnWebsite = TRUE

\* the page lists a review while it holds an unapproved review of its
\* property and an approved review of another property
PageHidesSome ==
  /\ Len(approvedReviews) > 0
  /\ \E r \in Range(pageReviews) :
       r.listingName = StrChelseaHarbour /\ ~r.displayOnWebsite
  /\ \E r \in Range(pageReviews) :
       r.listingName # StrChelseaHarbour /\ r.displayOnWebsite

----------------------------------------------------------------------------
(* Properties of the filters *)

\* the review has an entry for category c
HasEntry(r, c) ==
  /\ IsArray(r.reviewCategory)
  /\ \E k \in 1..Len(r.reviewCategory.items) : r.reviewCategory.items[k].category = c

\* its rating for c: the rating of its first entry for c
RatingFor(r, c) ==
  LET items == r.reviewCategory.items
      k == CHOOSE n \in 1..Len(items) :
             items[n].category = c /\ \A m \in 1..(n - 1) : items[m].category # c
  IN items[k].rating

\* the pass-through law of one category bound
WithinBound(r, c, range) ==
  \/ range = <<0, 10>>
  \/ ~HasEntry(r, c)
  \/ (range[1] <= RatingFor(r, c) /\ RatingFor(r, c) <= range[2])

WithinBounds(r) ==
  \A c \in DOMAIN categoryFilters : WithinBound(r, c, categoryFilters[c])

\* C5: the category range filter keeps exactly the reviews that, for every
\* category with a bound other than [0,10], have no entry for it (or no
\* sequence of categories at all) or have its rating within the bound; every
\* review on screen obeys that law.
CategoryRangeLaw ==
  /\ CategoryStep(SpreadCopy(reviews), CurrentFilter).arr = SelectSeq(reviews, WithinBounds)
  /\ \A i \in 1..Len(filtered) : WithinBounds(filtered[i])

\* a narrowed bound excludes a review that has the category and lets
\* through a review that has no sequence of categories
BoundExcludesAndPassesThrough ==
  \E c \in DOMAIN categoryFilters :
    /\ categoryFilters[c] # <<0, 10>>
    /\ \E r \in Range(reviews) : HasEntry(r, c) /\ r \notin Range(filtered)
    /\ \E r \in Range(filtered) : ~IsArray(r.reviewCategory)

\* the conjunction of the five filters, as the filter table states them
Satisfies(r) ==
  /\ propertyFilter = StrAll \/ r.listingName = propertyFilter
  /\ channelFilter = "all" \/ channelFilter = "Hostaway"
  /\ \/ publicDisplayFilter = "all"
     \/ publicDisplayFilter = "shown" /\ r.displayOnWebsite
     \/ publicDisplayFilter = "hidden" /\ ~r.displayOnWebsite
  /\ \/ \A k \in 1..Len(searchQuery) : searchQuery[k] = " "
     \/ \E text \in {r.publicReview, r.guestName, r.listingName} :
          Includes(ToLowerCase(text), ToLowerCase(searchQuery))
  /\ WithinBounds(r)

\* the five filters applied in the order given
Step(k, st, f) ==
  CASE k = 1 -> PropertyStep(st, f)
    [] k = 2 -> ChannelStep(st, f)
    [] k = 3 -> DisplayStep(st, f)
    [] k = 4 -> SearchStep(st, f)
    [] k = 5 -> CategoryStep(st, f)

RECURSIVE InOrder(_, _, _, _)
InOrder(order, k, st, f) ==
  IF k > 5 THEN st ELSE InOrder(order, k + 1, Step(order[k], st, f), f)

\* C6: the filtered reviews are exactly the reviews satisfying all five
\* filters, in the order of the collection, and the five filters applied in
\* any of their 120 orders give that same sequence.
FilterIsConjunction ==
  /\ filtered = SelectSeq(reviews, Satisfies)
  /\ \A order \in Permutations(1..5) :
       InOrder(order, 1, SpreadCopy(reviews), CurrentFilter).arr = filtered

\* three filters are set and keep a part of the collection
ThreeFiltersKeepPart ==
  /\ propertyFilter # StrAll
  /\ publicDisplayFilter # "all"
  /\ Trim(searchQuery) # <<>>
  /\ Len(filtered) > 0
  /\ Len(filtered) < Len(reviews)

\* C7: filtering the filtered reviews again with the same filter
\* specification gives the filtered reviews.
FilterIdempotent ==
  ApplyFilters(SpreadCopy(filtered), CurrentFilter).arr = filtered

\* a narrowed category bound keeps one review of a collection of two and
\* drops the other
BoundKeepsOneOfTwo ==
  /\ \E c \in DOMAIN categoryFilters : categoryFilters[c] # <<0, 10>>
  /\ Len(reviews) = 2
  /\ Len(filtered) = 1
  /\ \E i \in 1..2 : ~WithinBounds(reviews[i])

----------------------------------------------------------------------------
(* Properties of the sort keys *)

\* the step selects the sort key made of category c and direction dir
Selects(c, dir) == sortBy' # sortBy /\ sortBy' = c \o <<"-">> \o dir

\* C8: after the key of a detected category is selected, in either
\* direction, every review lacking the category comes after every review
\* that has it.
MissingCategoryLast ==
  [][\A c \in DOMAIN categoryFilters : \A dir \in {StrDesc, StrAsc} :
       Selects(c, dir) =>
         \A i, j \in 1..Len(displayableReviews') :
           (HasEntry(displayableReviews'[i], c) /\ ~HasEntry(displayableReviews'[j], c))
             => i < j]_vars

\* C9: after the key "c-desc" of a detected category c is selected, the
\* reviews that have c are in non-increasing order of their rating for c;
\* after "c-asc", in non-decreasing order.
SortsByCategoryRating ==
  [][\A c \in DOMAIN categoryFilters :
       \A i, j \in 1..Len(displayableReviews') :
         (i < j /\ HasEntry(displayableReviews'[i], c) /\ HasEntry(displayableReviews'[j], c))
           => /\ Selects(c, StrDesc) =>
                   RatingFor(displayableReviews'[i], c) >= RatingFor(displayableReviews'[j], c)
              /\ Selects(c, StrAsc) =>
                   RatingFor(displayableReviews'[i], c) <= RatingFor(displayableReviews'[j], c)]_vars

\* the timestamp of a review, the epoch when submittedAt does not parse
EpochValue(r) ==
  IF DateFields(r.submittedAt) = <<>> THEN 0 ELSE DateValue(r.submittedAt)

\* C10: under date-asc the reviews are in non-decreasing order of their
\* timestamps, under date-desc in non-increasing order, a submittedAt that
\* is empty or does not parse counting as the epoch.
DateSortEpochFallback ==
  \A i, j \in 1..Len(displayableReviews) :
    i < j =>
      /\ sortBy = StrDateAsc =>
           EpochValue(displayableReviews[i]) <= EpochValue(displayableReviews[j])
      /\ sortBy = StrDateDesc =>
           EpochValue(displayableReviews[i]) >= EpochValue(displayableReviews[j])

----------------------------------------------------------------------------
(* The intake of raw records: GET /api/reviews/hostaway over what the     *)
(* Hostaway API can deliver, and the dashboard's fetch of the answer      *)

MaxRawLen == 2

StrStay == <<"s", "t", "a", "y">>

\* Raw records as an upstream can send them: categories that repeat a name or
\* carry none, a rating of 0, fields that are missing or hold a number, a
\* record of the other type, null in place of a record or of a category entry
IntakeRecords ==
  {Raw(1, "guest-to-host", StrChelseaHarbour, StrAnn, StrGood,
       ArrayOf(<<Cat(StrClean, 7), Cat(StrClean, 9)>>), "2023-11-02", Undefined),
   Raw(2, "guest-to-host", StrShoreditch, NotAString, Absent,
       ArrayOf(<<Cat(Absent, 4), Cat(StrComm, 8)>>), "2023-03-10", Undefined),
   [Raw(3, "guest-to-host", Absent, Absent, StrStay, NoCategories, "", 0)
      EXCEPT !.status = ""],
   Raw(4, "host-to-guest", StrChelseaHarbour, StrBob, StrGood,
       ArrayOf(<<Cat(StrClean, 10)>>), "2023-03-25", 10),
   Raw(Undefined, "guest-to-host", StrChelseaHarbour, StrBob, StrStay,
       ArrayOf(<<NullObject, Cat(StrClean, 10)>>), "2023-03-25", 9),
   NullObject}

\* the Hostaway API in each way it can end
Upstreams ==
  {HostawayDown, Hostaway(TRUE, "throws", <<>>)}
    \cup {Hostaway(TRUE, r, rs) : r \in {"success", "fail"},
                                  rs \in Collections(IntakeRecords, MaxRawLen)}

\* contents of approvals.json
ApprovalFiles ==
  {EmptyMap, [k \in {1, 2} |-> k = 1], [k \in {NaN, 2} |-> TRUE]}

\* the dashboard mounts over some upstream and some approvals file
InitIntake ==
  /\ upstream \in Upstreams
  /\ approvalsFile \in ApprovalFiles
  /\ puts = {}
  /\ gets = {[client |-> "dashboard", pc |-> "req", status |-> 0,
              result |-> <<>>, expect |-> EmptyMap, unsettled |-> {}]}
  /\ toggles = 0
  /\ pageLoads = 0
  /\ reviews = <<>>
  /\ loading = TRUE
  /\ error = NoError
  /\ crashed = FALSE
  /\ propertyFilter = StrAll
  /\ channelFilter = "all"
  /\ publicDisplayFilter = "all"
  /\ sortBy = StrDateDesc
  /\ searchQuery = <<>>
  /\ categoryFilters = [c \in {} |-> FullRange]
  /\ filtered = <<>>
  /\ displayableReviews = <<>>
  /\ selectedProperty = StrAll
  /\ analytics = NoData
  /\ pageReviews = <<>>
  /\ approvedReviews = <<>>
  /\ edits = 0
  /\ acked = EmptyMap
  /\ lastEvent = "init"

NextIntake ==
  \/ \E g \in gets : GetRespond(g)
  \/ \E g \in gets : GetFail(g)
  \/ \E g \in gets : FetchOk(g)
  \/ \E g \in gets : FetchErr(g)
  \/ \E v \in SearchQueries : Edit /\ SetSearchQuery(v)
  \/ \E c \in DOMAIN categoryFilters, v \in SliderRanges : Edit /\ SetCategoryFilter(c, v)
  \/ \E v \in SortOptions(categoryFilters) : Edit /\ SetSortBy(v)
  \/ \E v \in UniqueProperties(reviews) \cup {StrAll} : Edit /\ SelectProperty(v)

SpecIntake == InitIntake /\ [][NextIntake]_vars

----------------------------------------------------------------------------
(* Properties of the normalizer *)

\* the reviews the GET handler processes
Processed ==
  IF Len(FetchHostawayReviews(upstream)) > 0 THEN FetchHostawayReviews(upstream)
  ELSE MockReviews

\* the raw records of type guest-to-host, in order
GuestToHost(raws) == SelectSeq(raws, LAMBDA r : r # NullObject /\ r.type = "guest-to-host")

\* the answers of the GET handler that carry reviews
Answered == {g \in gets : g.pc = "resp" /\ g.status = 200}

\* the ratings of all category entries of a raw record that have a numeric
\* rating
NumericRatings(raw) ==
  LET items == IF IsArray(raw.reviewCategory) THEN raw.reviewCategory.items ELSE <<>>
      numeric == SelectSeq(items, LAMBDA c : c # NullObject /\ IsNumber(c.rating))
  IN [k \in 1..Len(numeric) |-> numeric[k].rating]

\* C11: the rating of a normalized review is the mean, rounded to two
\* decimals, of all category entries of the raw record that have a numeric
\* rating (entries that repeat a name or have no string name included); with
\* no such entry it is the raw rating when that is a number, 0 included, and
\* null otherwise.
RatingIsMeanOfAllEntries ==
  \A g \in Answered :
    \A i \in 1..Len(g.result) :
      LET raw == GuestToHost(Processed)[i]
      IN g.result[i].rating =
           IF Len(NumericRatings(raw)) > 0 THEN MeanToFixed2(NumericRatings(raw))
           ELSE IF IsNumber(raw.rating) THEN raw.rating * Scale
           ELSE Null


\* C12: displayOnWebsite of a normalized review is a boolean: the entry of
\* the approval map for the raw record's id when the map has one, false
\* otherwise.
DisplayIsApprovalEntry ==
  \A g \in Answered :
    \A i \in 1..Len(g.result) :
      LET raw == GuestToHost(Processed)[i]
          shown == g.result[i].displayOnWebsite
      IN /\ shown \in BOOLEAN
         /\ shown = IF raw.id \in DOMAIN approvalsFile THEN approvalsFile[raw.id] ELSE FALSE

\* an answer with a review approved by its entry, one hidden by its entry and
\* one without an entry
ApprovalEntriesApplied ==
  \E g \in Answered :
    \E i, j, k \in 1..Len(g.result) :
      LET raws == GuestToHost(Processed)
      IN /\ raws[i].id \in DOMAIN approvalsFile /\ g.result[i].displayOnWebsite
         /\ raws[j].id \in DOMAIN approvalsFile /\ ~g.result[j].displayOnWebsite
         /\ raws[k].id \notin DOMAIN approvalsFile /\ ~g.result[k].displayOnWebsite

\* C13: guestName, listingName, type and status of a normalized review are
\* strings: the raw value when that is a string, the documented default
\* ("Unknown Guest", "Unknown Property", "unknown", "unknown") when the raw
\* value is absent or is no string.  (For type and status "" stands for an
\* absent field.)
StringFieldsDefaulted ==
  \A g \in Answered :
    \A i \in 1..Len(g.result) :
      LET raw == GuestToHost(Processed)[i]
          review == g.result[i]
      IN /\ review.guestName =
              IF IsString(raw.guestName) THEN raw.guestName ELSE StrUnknownGuest
         /\ review.listingName =
              IF IsString(raw.listingName) THEN raw.listingName ELSE StrUnknownProperty
         /\ review.type = IF raw.type # "" THEN raw.type ELSE "unknown"
         /\ review.status = IF raw.status # "" THEN raw.status ELSE "unknown"

\* the answers of the GET handler (status 0: the request never reached it)
HandlerAnswers == {g \in gets : g.pc = "resp" /\ g.status # 0}

\* C14: the GET handler never drops a record and never aborts the batch
\* because of a malformed record: whatever the raw records are, it answers
\* with success and with exactly one normalized review for each raw record of
\* type guest-to-host, in the order of the raw records, and none for a record
\* of another type.
BatchNeverAborts ==
  \A g \in HandlerAnswers :
    LET raws == GuestToHost(Processed)
    IN /\ g.status = 200
       /\ Len(g.result) = Len(raws)
       /\ \A i \in 1..Len(raws) : g.result[i] = NormalizeReview(raws[i], approvalsFile)

\* the upstream delivered reviews: a token, a response with status success
\* and at least one review in it
Delivered == upstream.token /\ upstream.response = "success" /\ Len(upstream.result) > 0

\* C15: whenever the upstream fails (no token, the request throws, the
\* response is no success) or returns no reviews, the GET handler answers 200
\* with the normalized mock reviews, never an error; when the upstream
\* returns at least one review the mock reviews are not used.
FixtureFallback ==
  \A g \in HandlerAnswers :
    IF Delivered
    THEN g.status = 200 => g.result = NormalizeAll(upstream.result, approvalsFile)
    ELSE g.status = 200 /\ g.result = NormalizeAll(MockReviews, approvalsFile)

\* an answer with the mock reviews for an upstream that granted a token and
\* then failed
FallbackTaken ==
  \E g \in Answered :
    /\ upstream.token /\ upstream.response # "success"
    /\ Len(g.result) = 3

----------------------------------------------------------------------------
(* Properties of the dashboard over normalized reviews *)

\* C16: over every review collection the normalizer produces, and for every
\* filter specification and sort key, the filter, the sort and the analytics
\* computation complete: no memo of the dashboard throws.
MemosNeverThrow == ~crashed

----------------------------------------------------------------------------
(* The analytics tab over fetched reviews *)

MaxAnalyticsLen == 3

\* Reviews as the normalizer returns them: a rating of 10, none, 0 (the mean
\* of a category rated 0), 0.5 (the mean of 0 and 1), 8 and 6; a date that
\* does not parse
AnalyticsReviews ==
  {Review(1, StrChelseaHarbour, StrAnn, StrGood, ArrayOf(<<>>), "2023-03-10", 10 * Scale, TRUE),
   Review(2, StrChelseaHarbour, StrBob, <<>>, ArrayOf(<<>>), "2023-03-25", Null, FALSE),
   Review(3, StrShoreditch, StrAnn, <<>>, ArrayOf(<<Cat(StrClean, 0)>>), "2023-11-02", 0, TRUE),
   Review(4, StrShoreditch, StrBob, StrGood,
          ArrayOf(<<Cat(StrClean, 0), Cat(StrComm, 1)>>), "2023-03-25", Scale \div 2, FALSE),
   Review(5, StrChelseaHarbour, StrBob, StrGood, ArrayOf(<<>>), "n/a", 8 * Scale, TRUE),
   Review(6, StrShoreditch, StrAnn, StrGood, ArrayOf(<<>>), "2024-01-15", 6 * Scale, FALSE)}

InitAnalytics == \E rs \in Collections(AnalyticsReviews, MaxAnalyticsLen) : Showing(rs)

NextAnalytics == \E v \in {StrAll} \cup UniqueProperties(reviews) : Free /\ SelectProperty(v)

SpecAnalytics == InitAnalytics /\ [][NextAnalytics]_vars

----------------------------------------------------------------------------
(* Properties of the analytics *)

\* the reviews which the analytics on screen are computed over
Selected == AnalyticsInput(reviews, selectedProperty).arr

\* the reviews of rs that have a rating
Rated(rs) == SelectSeq(rs, LAMBDA r : r.rating # Null)

\* the quotient q is the arithmetic mean of the ratings of rs
IsMeanOf(q, rs) == q.total * Len(rs) = Sum([i \in 1..Len(rs) |-> rs[i].rating]) * q.count

\* the bucket of a rating between 1 and 10, "" for any other rating
BucketFor(rating) ==
  IF rating = Null \/ rating < 1 * Scale \/ rating > 10 * Scale THEN ""
  ELSE IF rating >= 9 * Scale THEN "Excellent (9-10)"
  ELSE IF rating >= 7 * Scale THEN "Good (7-8)"
  ELSE IF rating >= 5 * Scale THEN "Average (5-6)"
  ELSE "Poor (1-4)"

\* C17: ratingPieData counts each review in the bucket of its rating
\* (Excellent 9 to 10, Good 7 to 8, Average 5 to 6, Poor 1 to 4); a review
\* whose rating is null or outside 1..10 is counted in no bucket; a bucket
\* with count 0 is omitted; the counts sum to the number of reviews with a
\* rating in 1..10.
PieCountsRatingsInRange ==
  ~analytics.noData =>
    LET pie == analytics.ratingPieData
        count(b) == Cardinality({i \in 1..Len(Selected) : BucketFor(Selected[i].rating) = b})
    IN /\ \A b \in {"Excellent (9-10)", "Good (7-8)", "Average (5-6)", "Poor (1-4)"} :
            IF count(b) = 0
            THEN \A k \in 1..Len(pie) : pie[k].name # b
            ELSE \E k \in 1..Len(pie) : pie[k].name = b /\ pie[k].value = count(b)
       /\ Sum([k \in 1..Len(pie) |-> pie[k].value]) =
            Cardinality({i \in 1..Len(Selected) : BucketFor(Selected[i].rating) # ""})

\* C18: propertiesByRating has exactly one entry per distinct listingName, in
\* the order of non-increasing averageRating, and the averageRating of an
\* entry is the arithmetic mean of the ratings of that property's reviews.
PropertiesRankedByMean ==
  ~analytics.noData =>
    LET entries == analytics.propertiesByRating
        Of(name) == Rated(SelectSeq(Selected, LAMBDA r : r.listingName = name))
    IN /\ Len(entries) = Cardinality({r.listingName : r \in Range(Selected)})
       /\ {entries[k].name : k \in 1..Len(entries)} = {r.listingName : r \in Range(Selected)}
       /\ \A k \in 1..(Len(entries) - 1) :
            QuotientMinus(entries[k].averageRating, entries[k + 1].averageRating) >= 0
       /\ \A k \in 1..Len(entries) :
            Len(Of(entries[k].name)) > 0 =>
              IsMeanOf(entries[k].averageRating, Of(entries[k].name))

\* C19: overallAverage is the arithmetic mean of the rating over exactly the
\* reviews whose rating is not null, a rating of 0 included, and 0 when no
\* review has a rating.
OverallAverageOverNonNull ==
  ~analytics.noData =>
    IF Len(Rated(Selected)) = 0 THEN analytics.overallAverage.total = 0
    ELSE IsMeanOf(analytics.overallAverage, Rated(Selected))

\* the reviews with a rating and a date that parses
Dated(rs) == SelectSeq(Rated(rs), LAMBDA r : DateFields(r.submittedAt) # <<>>)

\* C20: ratingOverTimeData has one bucket for each calendar month in which
\* some review has a parseable submittedAt and a rating, and no other bucket
\* (a review whose submittedAt is not empty and does not parse is in no
\* bucket); the value of a bucket is the mean rating of the reviews of its
\* month; the buckets are in strictly ascending order of their months.
MonthlyBucketsOfDatedReviews ==
  ~analytics.noData =>
    LET data == analytics.ratingOverTimeData
        InMonth(m) == SelectSeq(Dated(Selected), LAMBDA r : MonthOf(r.submittedAt) = m)
        months == {MonthOf(r.submittedAt) : r \in Range(Dated(Selected))}
    IN /\ Len(data) = Cardinality(months)
       /\ {data[k].month : k \in 1..Len(data)} = months
       /\ \A k \in 1..Len(data) :
            Len(InMonth(data[k].month)) > 0 =>
              IsMeanOf(data[k].averageRating, InMonth(data[k].month))
       /\ \A k \in 1..(Len(data) - 1) : data[k].month < data[k + 1].month


----------------------------------------------------------------------------
(* The category chart over fetched reviews *)

MaxCategoryLen == 3

StrCleanCapital == <<"C", "l", "e", "a", "n">>
StrCheckUnder == <<"c", "h", "e", "c", "k", "_", "i", "n">>

\* Reviews as the normalizer returns them, reviewCategory passed through: a
\* category rated twice, a rating of null, a missing rating, a category named
\* by the number 42, names that differ in case only, no categories at all
CategoryReviews ==
  {Review(1, StrChelseaHarbour, StrAnn, StrGood,
          ArrayOf(<<Cat(StrClean, 10), Cat(StrComm, 8)>>), "2024-01-15", 9 * Scale, TRUE),
   Review(2, StrChelseaHarbour, StrBob, StrGood,
          ArrayOf(<<Cat(StrClean, Null)>>), "2023-11-02", Null, FALSE),
   Review(3, StrShoreditch, StrAnn, StrGood,
          ArrayOf(<<Cat(StrClean, Undefined)>>), "2023-03-25", Null, TRUE),
   Review(4, StrShoreditch, StrBob, StrGood,
          ArrayOf(<<Cat(NotAString, 5), Cat(StrCheckUnder, 4)>>), "2023-03-10", 4 * Scale, FALSE),
   Review(5, StrChelseaHarbour, StrAnn, StrGood,
          ArrayOf(<<Cat(StrCleanCapital, 7), Cat(StrClean, 6)>>), "2023-03-10", 650, TRUE),
   Review(6, StrShoreditch, StrBob, StrGood, NoCategories, "2024-01-15", Null, FALSE)}

InitCategories == \E rs \in Collections(CategoryReviews, MaxCategoryLen) : Showing(rs)

SpecCategories == InitCategories /\ [][NextAnalytics]_vars

----------------------------------------------------------------------------
(* Properties of the category chart and of the Category Detector *)

\* the entries of the reviewCategory arrays of rs, in order
RECURSIVE EntriesOf(_)
EntriesOf(rs) ==
  IF rs = <<>> THEN <<>>
  ELSE (IF IsArray(Head(rs).reviewCategory)
        THEN SelectSeq(Head(rs).reviewCategory.items, LAMBDA cat : cat # NullObject)
        ELSE <<>>) \o EntriesOf(Tail(rs))

\* the entries of rs that name the category as a string and rate it by a number
NumericEntries(rs, name) ==
  SelectSeq(EntriesOf(rs), LAMBDA cat :
    IsString(cat.category) /\ cat.category = name /\ IsNumber(cat.rating))

\* C21: categoryChartData has one entry per detected category, whose value is
\* the mean of the ratings of that category over the entries that name it by
\* a string and rate it by a number (0 when there is none); every value lies
\* between 0 and 10.
CategoryMeansOverNumericEntries ==
  ~analytics.noData =>
    LET chart == analytics.categoryChartData
        names == DetectCategories(Selected)
    IN /\ Len(chart) = Len(names)
       /\ \A k \in 1..Len(chart) :
            LET own == NumericEntries(Selected, names[k])
                value == chart[k].A
            IN /\ IF Len(own) = 0 THEN value.total = 0
                  ELSE value.total * Len(own) =
                         Sum([i \in 1..Len(own) |-> own[i].rating]) * value.count
               /\ 0 <= value.total /\ value.total <= 10 * value.count

\* the category names that occur as a string in some entry of rs
StringNames(rs) ==
  {cat.category : cat \in {c \in Range(EntriesOf(rs)) : IsString(c.category)}}

\* the elements of a set of strings in ascending lexicographic order
Ascending(S) ==
  [k \in 1..Cardinality(S) |->
     CHOOSE c \in S : Cardinality({d \in S : StringLess(d, c)}) = k - 1]

\* C22: the Category Detector returns the distinct category names that occur
\* as a string in some reviewCategory entry, each once, in ascending
\* lexicographic order, whatever the order of the reviews; an entry whose
\* category is missing or is not a string adds nothing.  The dashboard keys
\* categoryFilters by the names, the analytics tab lists its chart by them.
DetectorReturnsStringNames ==
  /\ DOMAIN categoryFilters = StringNames(reviews)
  /\ ~analytics.noData =>
       LET chart == analytics.categoryChartData
           names == Ascending(StringNames(Selected))
       IN /\ Len(chart) = Len(names)
          /\ \A k \in 1..Len(chart) : chart[k].subject = Humanize(names[k])


----------------------------------------------------------------------------
(* Every control over a fetched collection of at most one review *)

MaxControlsLen == 1

ControlReviews ==
  {Review(3, StrChelseaHarbour, StrBob, StrGood,
          ArrayOf(<<Cat(StrComm, 8)>>), "2023-03-25", 8 * Scale, FALSE)}

InitControls == \E rs \in Collections(ControlReviews, MaxControlsLen) : Showing(rs)

NextControls ==
  \/ \E v \in {StrAll} \cup UniqueProperties(reviews) : Free /\ SetPropertyFilter(v)
  \/ \E v \in {"all", "Hostaway"} : Free /\ SetChannelFilter(v)
  \/ \E v \in {"all", "shown", "hidden"} : Free /\ SetPublicDisplayFilter(v)
  \/ \E v \in SearchQueries : Free /\ SetSearchQuery(v)
  \/ \E category \in DOMAIN categoryFilters :
       \E newValue \in SliderRanges : Free /\ SetCategoryFilter(category, newValue)
  \/ \E v \in SortOptions(categoryFilters) : Free /\ SetSortBy(v)
  \/ \E v \in {StrAll} \cup UniqueProperties(reviews) : Free /\ SelectProperty(v)

SpecControls == InitControls /\ [][NextControls]_vars

\* C23: over an empty collection of reviews, whatever the filters and the
\* sort key, the filters give the empty sequence, the sort gives the empty
\* sequence and the analytics give the "no data" result; the sort of an empty
\* filter output is empty, and so are the analytics of a property selection
\* that matches no review.
EmptyInEmptyOut ==
  /\ reviews = <<>> => filtered = <<>> /\ displayableReviews = <<>>
  /\ filtered = <<>> => displayableReviews = <<>>
  /\ Selected = <<>> => analytics = NoData

\* no reviews were fetched, and the filters and the sort key have been changed
ControlsChangedOverNoReviews ==
  /\ reviews = <<>> /\ analytics = NoData /\ displayableReviews = <<>>
  /\ channelFilter # "all" /\ publicDisplayFilter # "all"
  /\ searchQuery # <<>> /\ sortBy = StrRatingAsc


----------------------------------------------------------------------------
(* Properties of the approval toggle *)

\* everything the dashboard renders from: its React state and its memos
Screen == <<dataVars, filterVars, viewVars, analyticsVars>>

\* C24: a failed approval update is shown to the user: the step in which the
\* dashboard takes a failed or rejected PUT changes what it renders.
FailedToggleIsShown ==
  [][(\E p \in SettledNow : p.status # 200) => Screen' # Screen]_vars


----------------------------------------------------------------------------
(* Repeated clicks on the switch of a review *)

MaxClicks == 3

\* Collections as the server returns them: one review with an id; two
\* reviews without id, which the normalizer returns with id null and
\* displayOnWebsite false
ClickCollections ==
  {<<Review(1, StrChelseaHarbour, StrAnn, StrGood, ArrayOf(<<>>), "2024-01-15", 9 * Scale, FALSE)>>,
   <<Review(Null, StrChelseaHarbour, StrAnn, StrGood, ArrayOf(<<>>), "2024-01-15", 9 * Scale, FALSE),
     Review(Null, StrShoreditch, StrBob, <<>>, ArrayOf(<<>>), "2023-11-02", 7 * Scale, FALSE)>>}

InitClicks == \E rs \in ClickCollections : Showing(rs)

NextClicks ==
  \/ \E i \in 1..Len(displayableReviews) : ToggleWithin(displayableReviews[i].id, MaxClicks)
  \/ \E p \in puts : PutRead(p)
  \/ \E p \in puts : PutWrite(p)
  \/ \E p \in puts : PutWriteFail(p)
  \/ \E p \in puts : PutReject(p)
  \/ \E p \in puts : ToggleOk(p)
  \/ \E p \in puts : ToggleErr(p)

SpecClicks == InitClicks /\ [][NextClicks]_vars

\* C25: once no PUT of the dashboard is under way, the displayOnWebsite the
\* dashboard holds for a review with an id is the value the approval store
\* holds for that id (false when it holds none), whatever the order in which
\* the requests were handled and the answers taken.
ClientAgreesWithStore ==
  puts = {} =>
    \A i \in 1..Len(reviews) :
      reviews[i].id # Null =>
        reviews[i].displayOnWebsite = Approval(approvalsFile, ParseIntParam(reviews[i].id))


\* C26: no update of the approval store is lost: the store holds, for every
\* id for which a PUT was answered 200, the value of the latest such PUT,
\* however the PUT handlers of different ids interleave their reads and
\* writes of the file.
NoLostUpdate ==
  \A id \in DOMAIN acked :
    /\ ParseIntParam(id) \in DOMAIN approvalsFile
    /\ approvalsFile[ParseIntParam(id)] = acked[id]

\* C27: the step that takes a PUT answered 200 changes at most one review of
\* the dashboard's collection, one with the id of the PUT, and nothing of it
\* but its displayOnWebsite.
ToggleChangesOneReview ==
  [][\A p \in SettledNow :
       p.status = 200 =>
         /\ Len(reviews') = Len(reviews)
         /\ Cardinality({i \in 1..Len(reviews) : reviews'[i] # reviews[i]}) <= 1
         /\ \A i \in 1..Len(reviews) :
              reviews'[i] # reviews[i] =>
                /\ reviews[i].id = p.id
                /\ reviews'[i] = [reviews[i] EXCEPT !.displayOnWebsite = p.value]]_vars


----------------------------------------------------------------------------
(* The dashboard's fetch *)

\* the dashboard's GET whose answer has arrived and is not yet taken
Arrived == {g \in gets : g.client = "dashboard" /\ g.pc = "resp"}

\* C28: the fetch of the dashboard ends its loading state: the step that
\* takes the answer of the GET makes loading false; the step that takes a failure
\* (no response, or a status other than success) sets error and leaves the
\* collection as it was; the step that takes a success makes the response
\* the collection and leaves error unset; loading is true only while the GET
\* is outstanding.
FetchEndsLoading ==
  /\ [][\A g \in Arrived :
          g \notin gets' =>
            /\ ~loading'
            /\ IF g.status = 200
               THEN reviews' = g.result /\ error = NoError /\ error' = NoError
               ELSE error' # NoError /\ reviews' = reviews]_vars
  /\ [](loading => \E g \in gets : g.client = "dashboard")

\* the GET failed and the dashboard has taken the failure
FetchFailureTaken == lastEvent = "fetchErr" /\ ~loading /\ error = FetchError


----------------------------------------------------------------------------
(* PUT /api/reviews/:id/approval called with any body *)

MaxRequests == 2

\* the JSON bodies sent: the typeof of displayOnWebsite and, for a boolean,
\* its value ({}, {displayOnWebsite: "true"}, 1, null, true, false)
Bodies ==
  {[body |-> "undefined", value |-> FALSE], [body |-> "string", value |-> FALSE],
   [body |-> "number", value |-> FALSE], [body |-> "object", value |-> FALSE],
   [body |-> "boolean", value |-> TRUE], [body |-> "boolean", value |-> FALSE]}

\* some client of the API sends a PUT
ApiPut(id, b) ==
  /\ toggles < MaxRequests
  /\ puts' = puts \cup {[n |-> toggles + 1, id |-> id, body |-> b.body, value |-> b.value,
                         pc |-> "req", status |-> 0, approvals |-> EmptyMap]}
  /\ toggles' = toggles + 1
  /\ lastEvent' = "apiPut"
  /\ UNCHANGED <<upstream, approvalsFile, gets, pageLoads, dataVars, viewVars, analyticsVars,
                 pageVars, edits, acked>>

InitApi == Showing(<<>>)

NextApi ==
  \/ \E id \in {1, 2} : \E b \in Bodies : ApiPut(id, b)
  \/ \E p \in puts : PutInvalid(p)
  \/ \E p \in puts : PutRead(p)
  \/ \E p \in puts : PutWrite(p)
  \/ \E p \in puts : PutWriteFail(p)

SpecApi == InitApi /\ [][NextApi]_vars

SinglePropertyAverageIsOverall ==
  (selectedProperty # StrAll /\ ~analytics.noData) =>
    /\ Len(analytics.propertiesByRating) = 1
    /\ QuotientMinus(analytics.propertiesByRating[1].averageRating,
                     analytics.overallAverage) = 0

============================================================================
